---- MODULE Spec2Model ----
(***************************************************************************)
(* Model of the JSR MCP bridge: the tool dispatcher handleJSRTool with its *)
(* zod input schemas, the CallTool handler that fronts it, the McpServer   *)
(* tool handlers of the jsr-mcp package, and the two copies of the JSR     *)
(* HTTP client (makeApiRequest / makeRegistryRequest and the remote        *)
(* operations built on them).                                              *)
(*                                                                         *)
(* Representation.  A JavaScript value is a record [t, s, n]: t is the     *)
(* typeof-like tag, s the characters of a string (or the keys of an object *)
(* sample, or the element tags of an array sample), n a number counted in  *)
(* QUARTERS (n = 4 stands for 1, n = 6 for 1.5), so that fractional        *)
(* arguments and their products exist in the model; a number whose s is    *)
(* <<"NaN">> or <<"Infinity">> is that special value (n carries the sign). *)
(* A string is a sequence of one-character strings; literal text that is   *)
(* never inspected is a single token.                                      *)
(***************************************************************************)
EXTENDS Integers, Sequences, FiniteSets, TLC

----------------------------------------------------------------------------
(* Bounds of the model *)

\* Number of schema fields of one argument object that may differ from the
\* minimal valid object of the tool.
MaxPerturbed == 2

\* Largest length of an array or items list in a decoded response body.
MaxItems == 2

----------------------------------------------------------------------------
(* JavaScript values *)

Undef == [t |-> "undefined", s |-> <<>>, n |-> 0]
Null == [t |-> "null", s |-> <<>>, n |-> 0]
Str(cs) == [t |-> "string", s |-> cs, n |-> 0]
Num(h) == [t |-> "number", s |-> <<>>, n |-> h]
Bool(b) == [t |-> "boolean", s |-> <<>>, n |-> IF b THEN 1 ELSE 0]
Obj(keys) == [t |-> "object", s |-> keys, n |-> 0]
Arr(elems) == [t |-> "array", s |-> elems, n |-> 0]

\* The integer x as a number value.
Q(x) == 4 * x

NaN == [t |-> "number", s |-> <<"NaN">>, n |-> 0]
Infinity(sign) == [t |-> "number", s |-> <<"Infinity">>, n |-> sign]

IsFinite(v) == v.t = "number" /\ v.s = <<>>

\* JavaScript truthiness, as used by if (x), x || d and x ? a : b.
Truthy(v) ==
  CASE v.t \in {"undefined", "null"} -> FALSE
    [] v.t = "string" -> Len(v.s) > 0
    [] v.t = "number" -> v.s # <<"NaN">> /\ v.n # 0
    [] v.t = "boolean" -> v.n = 1
    [] OTHER -> TRUE

LowerChars ==
  {"a", "b", "c", "d", "e", "f", "g", "h", "i", "j", "k", "l", "m",
   "n", "o", "p", "q", "r", "s", "t", "u", "v", "w", "x", "y", "z"}

DigitChars == {"0", "1", "2", "3", "4", "5", "6", "7", "8", "9"}

SeqToSet(q) == {q[i] : i \in 1..Len(q)}

----------------------------------------------------------------------------
(* The name pattern /^[a-z][a-z0-9]*(?:-[a-z0-9]+)*$/ run as an automaton:  *)
(* "start" expects the alphabetic first character, "seg" is inside a        *)
(* segment (accepting), "hyphen" has just consumed a '-' and needs one more *)
(* alphanumeric character.                                                  *)

RECURSIVE NameRun(_, _, _)
NameRun(cs, i, st) ==
  IF i > Len(cs) THEN st = "seg"
  ELSE LET c == cs[i]
           alnum == c \in LowerChars \/ c \in DigitChars
       IN CASE st = "start" -> c \in LowerChars /\ NameRun(cs, i + 1, "seg")
            [] st = "seg" ->
                 IF alnum THEN NameRun(cs, i + 1, "seg")
                 ELSE c = "-" /\ NameRun(cs, i + 1, "hyphen")
            [] OTHER -> alnum /\ NameRun(cs, i + 1, "seg")

\* The pattern /^[a-z][a-z0-9-]*$/, which lets hyphens fall anywhere after
\* the first character.
LooseNameSchema(v) ==
  /\ v.t = "string"
  /\ Len(v.s) >= 1
  /\ v.s[1] \in LowerChars
  /\ \A i \in 1..Len(v.s) : v.s[i] \in LowerChars \cup DigitChars \cup {"-"}

ScopeNameSchema(v) == v.t = "string" /\ NameRun(v.s, 1, "start")

PackageNameSchema(v) == v.t = "string" /\ NameRun(v.s, 1, "start")

\* z.string()
VersionSchema(v) == v.t = "string"

\* The one well-formed UUID of the model, as a single token.
UuidText == <<"123e4567-e89b-12d3-a456-426614174000">>

\* z.string().uuid()
UserIdSchema(v) == v.t = "string" /\ v.s = UuidText

----------------------------------------------------------------------------
(* zod field checks.  A field description is [kind, opt, lo, hi]; lo and hi *)
(* are in quarters for numbers and in characters for strings.                 *)

Keys ==
  {"scope", "name", "version", "query", "limit", "skip", "page",
   "versionsPerPackageLimit", "id", "userId", "description",
   "ghActionsVerifyActor", "requirePublishingFromCI", "githubLogin",
   "isAdmin", "package", "githubRepository", "runtimeCompat", "isArchived",
   "configPath", "tarballPath", "yanked", "challenge", "permissions", "code",
   "exchangeToken", "verifier"}

Field(kind, opt, lo, hi) == [kind |-> kind, opt |-> opt, lo |-> lo, hi |-> hi]

NoField == Field("none", TRUE, 0, 0)

\* z.object({...}): the declared keys; every other key is undeclared.
Shape(fs) == fs @@ [k \in Keys |-> NoField]

Declared(schema) == {k \in Keys : schema[k].kind # "none"}

\* One field of a z.object against one value: .optional() admits undefined
\* only; no check coerces across types.
FieldOk(f, v) ==
  IF v.t = "undefined" THEN f.opt
  ELSE CASE f.kind = "name" -> ScopeNameSchema(v)
         [] f.kind = "string" -> v.t = "string"
         [] f.kind = "strmax" -> v.t = "string" /\ Len(v.s) <= f.hi
         [] f.kind = "uuid" -> UserIdSchema(v)
         [] f.kind = "number" -> v.t = "number"
         [] f.kind = "min" -> v.t = "number" /\ v.n >= f.lo
         [] f.kind = "range" -> v.t = "number" /\ v.n >= f.lo /\ v.n <= f.hi
         [] f.kind = "boolean" -> v.t = "boolean"
         [] f.kind = "repo" ->
              \/ v.t = "null"
              \/ v.t = "object" /\ {"owner", "repo"} \subseteq SeqToSet(v.s)
         [] f.kind = "repoName" ->
              \/ v.t = "null"
              \/ v.t = "object" /\ {"owner", "name"} \subseteq SeqToSet(v.s)
         [] f.kind = "runtimeCompat" -> v.t = "object"
         [] f.kind = "permissions" ->
              v.t = "array" /\ "invalid" \notin SeqToSet(v.s)
         [] OTHER -> TRUE

\* schema.parse(args): succeeds when args is an object and every declared
\* field passes.
ParseOk(schema, args) ==
  /\ args.obj
  /\ \A k \in Declared(schema) : FieldOk(schema[k], args.f[k])

\* The keys a nested z.object declares.
NestedKeys(kind) ==
  CASE kind = "repo" -> {"owner", "repo"}
    [] kind = "repoName" -> {"owner", "name"}
    [] kind = "runtimeCompat" -> {"browser", "deno", "node", "workerd", "bun"}
    [] OTHER -> {}

\* The value parse returns for one field: a nested z.object keeps its
\* declared keys only, and so does each entry of the permissions array (an
\* entry written "<kind>+extra" is an entry of that kind with one more key).
StripValue(f, v) ==
  IF v.t = "object" /\ f.kind \in {"repo", "repoName", "runtimeCompat"}
  THEN LET Kept(key) == key \in NestedKeys(f.kind)
       IN Obj(SelectSeq(v.s, Kept))
  ELSE IF v.t = "array" /\ f.kind = "permissions"
  THEN Arr([i \in DOMAIN v.s |->
              IF v.s[i] = "scope+extra" THEN "scope" ELSE v.s[i]])
  ELSE v

\* A z.object in passthrough mode: every key, declared or not, is kept.
ParsedPassthrough(schema, args) == args.f

\* The value parse returns: the declared keys only (z.object strips the
\* rest), at the top level and inside nested objects.
Parsed(schema, args) ==
  [k \in Keys |->
     IF k \in Declared(schema) THEN StripValue(schema[k], args.f[k])
     ELSE Undef]

----------------------------------------------------------------------------
(* Tool input schemas of the dispatcher (types/jsr.ts) *)

FScope == Field("name", FALSE, 0, 0)
FReqString == Field("string", FALSE, 0, 0)
FOptString == Field("string", TRUE, 0, 0)
FOptNumber == Field("number", TRUE, 0, 0)
FReqBoolean == Field("boolean", FALSE, 0, 0)
FOptBoolean == Field("boolean", TRUE, 0, 0)
FUserId == Field("uuid", FALSE, 0, 0)
\* An upper bound off by one.
FLimitBelow100 == Field("range", TRUE, Q(1), Q(99))
\* z.number().min(1).max(100).optional()
FLimit == Field("range", TRUE, Q(1), Q(100))
\* z.number().min(1).optional()
FPage == Field("min", TRUE, Q(1), 0)
\* z.number().min(1).max(10).optional()
FVersionsPerPackageLimit == Field("range", TRUE, Q(1), Q(10))
\* z.string().max(250).optional()
FDescription250 == Field("strmax", TRUE, 0, 250)

PaginationSchema == Shape("limit" :> FOptNumber @@ "skip" :> FOptNumber)

SearchPackagesSchema ==
  Shape("query" :> FOptString @@ PaginationSchema)

GetPackageSchema == Shape("scope" :> FScope @@ "name" :> FScope)

GetPackageVersionSchema ==
  Shape("version" :> FReqString @@ GetPackageSchema)

ListPackageVersionsSchema ==
  Shape("limit" :> FOptNumber @@ "page" :> FOptNumber @@ GetPackageSchema)

GetScopeSchema == Shape("scope" :> FScope)

ListScopePackagesSchema ==
  Shape("limit" :> FOptNumber @@ "skip" :> FOptNumber @@ GetScopeSchema)

ListPackagesSchema ==
  Shape("limit" :> FLimit @@ "page" :> FPage @@ "query" :> FOptString)

CreateScopeSchema == Shape("scope" :> FScope @@ "description" :> FOptString)

UpdateScopeSchema ==
  Shape("ghActionsVerifyActor" :> FOptBoolean
        @@ "requirePublishingFromCI" :> FOptBoolean @@ GetScopeSchema)

AddScopeMemberSchema == Shape("githubLogin" :> FReqString @@ GetScopeSchema)

UpdateScopeMemberSchema ==
  Shape("userId" :> FUserId @@ "isAdmin" :> FReqBoolean @@ GetScopeSchema)

RemoveScopeMemberSchema == Shape("userId" :> FUserId @@ GetScopeSchema)

DeleteScopeInviteSchema == Shape("userId" :> FUserId @@ GetScopeSchema)

CreatePackageSchema == Shape("package" :> FScope @@ GetScopeSchema)

UpdatePackageSchema ==
  Shape("description" :> FDescription250
        @@ "githubRepository" :> Field("repo", TRUE, 0, 0)
        @@ "runtimeCompat" :> Field("runtimeCompat", TRUE, 0, 0)
        @@ "isArchived" :> FOptBoolean @@ GetPackageSchema)

CreatePackageVersionSchema ==
  Shape("configPath" :> FReqString @@ "tarballPath" :> FReqString
        @@ GetPackageVersionSchema)

UpdatePackageVersionSchema ==
  Shape("yanked" :> FReqBoolean @@ GetPackageVersionSchema)

CreateAuthorizationSchema ==
  Shape("challenge" :> FReqString
        @@ "permissions" :> Field("permissions", TRUE, 0, 0))

GetAuthorizationDetailsSchema == Shape("code" :> FReqString)

ExchangeAuthorizationSchema ==
  Shape("exchangeToken" :> FReqString @@ "verifier" :> FReqString)

GetPackageDependentsSchema ==
  Shape("limit" :> FLimit @@ "page" :> FPage
        @@ "versionsPerPackageLimit" :> FVersionsPerPackageLimit
        @@ GetPackageSchema)

\* z.object({ id: z.string().uuid() })
GetPublishingTaskSchema == Shape("id" :> FUserId)

GetUserSchema == Shape("id" :> FUserId)

\* Tools whose case does not call parse at all.
NoSchema == [k \in Keys |-> NoField]

----------------------------------------------------------------------------
(* Inline tool schemas of the McpServer entry point (jsr-mcp index.ts).     *)
(* Names and ids are plain z.string() here.                                 *)

McpSearchPackagesSchema ==
  Shape("query" :> FOptString @@ "limit" :> FOptNumber
        @@ "skip" :> FOptNumber)

McpGetPackageSchema == Shape("scope" :> FReqString @@ "name" :> FReqString)

McpGetPackageVersionSchema ==
  Shape("scope" :> FReqString @@ "name" :> FReqString
        @@ "version" :> FReqString)

McpListPackageVersionsSchema ==
  Shape("scope" :> FReqString @@ "name" :> FReqString
        @@ "limit" :> FOptNumber @@ "page" :> FOptNumber)

McpGetScopeSchema == Shape("scope" :> FReqString)

McpListScopePackagesSchema ==
  Shape("scope" :> FReqString @@ "limit" :> FOptNumber
        @@ "skip" :> FOptNumber)

McpListPackagesSchema ==
  Shape("limit" :> FLimit @@ "page" :> FPage @@ "query" :> FOptString)

McpGetPackageDependentsSchema ==
  Shape("scope" :> FReqString @@ "name" :> FReqString @@ "limit" :> FLimit
        @@ "page" :> FPage
        @@ "versionsPerPackageLimit" :> FVersionsPerPackageLimit)

\* GetUserSchema, GetUserScopesSchema, GetPublishingTaskSchema
McpGetUserSchema == Shape("id" :> FReqString)

McpCreateScopeSchema ==
  Shape("scope" :> FReqString @@ "description" :> FOptString)

McpUpdateScopeSchema ==
  Shape("scope" :> FReqString @@ "ghActionsVerifyActor" :> FOptBoolean
        @@ "requirePublishingFromCI" :> FOptBoolean)

McpAddScopeMemberSchema ==
  Shape("scope" :> FReqString @@ "githubLogin" :> FReqString)

McpUpdateScopeMemberSchema ==
  Shape("scope" :> FReqString @@ "userId" :> FReqString
        @@ "isAdmin" :> FReqBoolean)

\* RemoveScopeMemberSchema, DeleteScopeInviteSchema
McpRemoveScopeMemberSchema ==
  Shape("scope" :> FReqString @@ "userId" :> FReqString)

McpCreatePackageSchema ==
  Shape("scope" :> FReqString @@ "package" :> FReqString)

McpUpdatePackageSchema ==
  Shape("scope" :> FReqString @@ "name" :> FReqString
        @@ "description" :> FDescription250
        @@ "githubRepository" :> Field("repoName", TRUE, 0, 0)
        @@ "runtimeCompat" :> Field("runtimeCompat", TRUE, 0, 0)
        @@ "isArchived" :> FOptBoolean)

McpCreatePackageVersionSchema ==
  Shape("scope" :> FReqString @@ "name" :> FReqString
        @@ "version" :> FReqString @@ "configPath" :> FReqString
        @@ "tarballPath" :> FReqString)

McpUpdatePackageVersionSchema ==
  Shape("scope" :> FReqString @@ "name" :> FReqString
        @@ "version" :> FReqString @@ "yanked" :> FReqBoolean)

McpCreateAuthorizationSchema ==
  Shape("challenge" :> FReqString
        @@ "permissions" :> Field("permissions", TRUE, 0, 0))

\* GetAuthorizationDetailsSchema, ApproveAuthorizationSchema,
\* DenyAuthorizationSchema
McpGetAuthorizationDetailsSchema == Shape("code" :> FReqString)

McpExchangeAuthorizationSchema ==
  Shape("exchangeToken" :> FReqString @@ "verifier" :> FReqString)

----------------------------------------------------------------------------
(* Remote operations (clients/jsr.ts and the library client).  Each one     *)
(* yields the call it makes on a request builder: which builder, the        *)
(* endpoint as path pieces plus query parameters, the fetch options, and    *)
(* how the decoded response is reshaped afterwards.                         *)

HeaderNames == {"Content-Type", "Accept", "User-Agent", "Authorization"}

NoHeaders == [h \in HeaderNames |-> Undef]

NoFields == [k \in Keys |-> Undef]

NoBody == [t |-> "none", f |-> NoFields]

\* A serializer that writes an undefined property as null, the way
\* JSON.stringify treats an undefined array element.
JsonBodyUndefinedAsNull(f) ==
  [t |-> "json", f |-> [k \in Keys |-> IF f[k] = Undef THEN Null ELSE f[k]]]

\* JSON.stringify(object): a property whose value is undefined is left out,
\* null is kept.
JsonBody(f) == [t |-> "json", f |-> [k \in Keys |-> f[k]]]

BinaryBody == [t |-> "binary", f |-> NoFields]

NoPost == [kind |-> "none", limit |-> Undef, page |-> Undef, skip |-> Undef]

Call(builder, path, query, method, headers, body, post) ==
  [builder |-> builder, path |-> path, query |-> query, method |-> method,
   headers |-> headers, body |-> body, post |-> post]

\* A GET without options on the management API.
ApiGet(path) == Call("api", path, <<>>, "GET", NoHeaders, NoBody, NoPost)

\* params.set(k, String(v)) under a condition.
Param(cond, k, v) == IF cond THEN <<[k |-> k, v |-> v]>> ELSE <<>>

Defined(v) == v.t # "undefined"

\* Math.floor(a / b) for finite a and b # 0.
FloorDiv(a, b) ==
  IF b > 0 THEN a \div b ELSE (0 - a) \div (0 - b)

\* A conversion that numbers the pages from zero.
PageOfZeroBased(skip, limit) ==
  IF limit.n # 0 THEN Num(Q(FloorDiv(skip.n, limit.n)))
  ELSE Num(0)

\* Math.floor(skip / limit) + 1 in IEEE arithmetic on finite operands.
PageOf(skip, limit) ==
  IF limit.n # 0 THEN Num(Q(FloorDiv(skip.n, limit.n) + 1))
  ELSE IF skip.n = 0 THEN NaN
  ELSE Infinity(IF skip.n > 0 THEN 1 ELSE 0 - 1)

\* page > 1
GreaterThanOne(page) ==
  IF IsFinite(page) THEN page.n > Q(1) ELSE page = Infinity(1)

\* limit || 20
LimitOr20(limit) == IF Truthy(limit) THEN limit ELSE Num(Q(20))

searchPackages(query, limit, page) ==
  Call("api", <<<<"/packages?">>>>,
       Param(Truthy(query), "query", query)
         \o Param(Defined(limit), "limit", limit)
         \o Param(Defined(page), "page", page),
       "GET", NoHeaders, NoBody, NoPost)

getPackage(scope, name) ==
  ApiGet(<<<<"/scopes/">>, scope.s, <<"/packages/">>, name.s>>)

getPackageVersion(scope, name, version) ==
  ApiGet(<<<<"/scopes/">>, scope.s, <<"/packages/">>, name.s,
           <<"/versions/">>, version.s>>)

listPackageVersions(scope, name, limit, page) ==
  Call("api",
       <<<<"/scopes/">>, scope.s, <<"/packages/">>, name.s, <<"/versions?">>>>,
       Param(Defined(limit), "limit", limit)
         \o Param(Defined(page), "page", page),
       "GET", NoHeaders, NoBody,
       [kind |-> "array", limit |-> limit, page |-> page, skip |-> Undef])

getScope(scope) == ApiGet(<<<<"/scopes/">>, scope.s>>)

listScopePackages(scope, limit, skip) ==
  LET page == IF Defined(skip) THEN PageOf(skip, LimitOr20(limit))
              ELSE Num(Q(1))
  IN Call("api", <<<<"/scopes/">>, scope.s, <<"/packages?">>>>,
          Param(Defined(limit), "limit", limit)
            \o Param(GreaterThanOne(page), "page", page),
          "GET", NoHeaders, NoBody,
          [kind |-> "itemsSkip", limit |-> limit, page |-> Undef,
           skip |-> skip])

getPackageMetadata(scope, name) ==
  Call("registry", <<<<"/@">>, scope.s, <<"/">>, name.s, <<"/meta.json">>>>,
       <<>>, "GET", NoHeaders, NoBody, NoPost)

listPackages(limit, page, query) ==
  Call("api", <<<<"/packages?">>>>,
       Param(Defined(limit), "limit", limit)
         \o Param(Defined(page), "page", page)
         \o Param(Truthy(query), "query", query),
       "GET", NoHeaders, NoBody, NoPost)

getPackageDependents(scope, name, limit, page, versionsPerPackageLimit) ==
  Call("api",
       <<<<"/scopes/">>, scope.s, <<"/packages/">>, name.s,
         <<"/dependents?">>>>,
       Param(Defined(limit), "limit", limit)
         \o Param(Defined(page), "page", page)
         \o Param(Defined(versionsPerPackageLimit),
                  "versions_per_package_limit", versionsPerPackageLimit),
       "GET", NoHeaders, NoBody,
       [kind |-> "itemsPage", limit |-> limit, page |-> page,
        skip |-> Undef])

getPackageScore(scope, name) ==
  ApiGet(<<<<"/scopes/">>, scope.s, <<"/packages/">>, name.s, <<"/score">>>>)

getPackageDependencies(scope, name, version) ==
  ApiGet(<<<<"/scopes/">>, scope.s, <<"/packages/">>, name.s,
           <<"/versions/">>, version.s, <<"/dependencies">>>>)

getCurrentUser == ApiGet(<<<<"/user">>>>)

getCurrentUserScopes == ApiGet(<<<<"/user/scopes">>>>)

getCurrentUserScopeMember(scope) == ApiGet(<<<<"/user/member/">>, scope.s>>)

getCurrentUserInvites == ApiGet(<<<<"/user/invites">>>>)

getUser(userId) == ApiGet(<<<<"/users/">>, userId.s>>)

getUserScopes(userId) == ApiGet(<<<<"/users/">>, userId.s, <<"/scopes">>>>)

listScopeMembers(scope) == ApiGet(<<<<"/scopes/">>, scope.s, <<"/members">>>>)

listScopeInvites(scope) == ApiGet(<<<<"/scopes/">>, scope.s, <<"/invites">>>>)

getPublishingTask(taskId) == ApiGet(<<<<"/publishing_tasks/">>, taskId.s>>)

getStats == ApiGet(<<<<"/stats">>>>)

\* An object literal with the given properties.
Props(f) == f @@ NoFields

ApiWrite(method, path, body) ==
  Call("api", path, <<>>, method, NoHeaders, body, NoPost)

createScope(scope, description) ==
  ApiWrite("POST", <<<<"/scopes">>>>,
           JsonBody(Props("scope" :> scope @@ "description" :> description)))

updateScope(scope, updates) ==
  ApiWrite("PATCH", <<<<"/scopes/">>, scope.s>>, JsonBody(updates))

deleteScope(scope) == ApiWrite("DELETE", <<<<"/scopes/">>, scope.s>>, NoBody)

addScopeMember(scope, githubLogin) ==
  ApiWrite("POST", <<<<"/scopes/">>, scope.s, <<"/members">>>>,
           JsonBody(Props("githubLogin" :> githubLogin)))

updateScopeMember(scope, userId, isAdmin) ==
  ApiWrite("PATCH", <<<<"/scopes/">>, scope.s, <<"/members/">>, userId.s>>,
           JsonBody(Props("isAdmin" :> isAdmin)))

removeScopeMember(scope, userId) ==
  ApiWrite("DELETE", <<<<"/scopes/">>, scope.s, <<"/members/">>, userId.s>>,
           NoBody)

deleteScopeInvite(scope, userId) ==
  ApiWrite("DELETE", <<<<"/scopes/">>, scope.s, <<"/invites/">>, userId.s>>,
           NoBody)

createPackage(scope, packageName) ==
  ApiWrite("POST", <<<<"/scopes/">>, scope.s, <<"/packages">>>>,
           JsonBody(Props("package" :> packageName)))

updatePackage(scope, name, updates) ==
  ApiWrite("PATCH", <<<<"/scopes/">>, scope.s, <<"/packages/">>, name.s>>,
           JsonBody(updates))

deletePackage(scope, name) ==
  ApiWrite("DELETE", <<<<"/scopes/">>, scope.s, <<"/packages/">>, name.s>>,
           NoBody)

createPackageVersion(scope, name, version, configPath) ==
  Call("api",
       <<<<"/scopes/">>, scope.s, <<"/packages/">>, name.s,
         <<"/versions/">>, version.s, <<"?">>>>,
       <<[k |-> "config", v |-> configPath]>>,
       "POST",
       [NoHeaders EXCEPT
          !["Content-Type"] = Str(<<"application/octet-stream">>)],
       BinaryBody, NoPost)

updatePackageVersion(scope, name, version, yanked) ==
  ApiWrite("PATCH",
           <<<<"/scopes/">>, scope.s, <<"/packages/">>, name.s,
             <<"/versions/">>, version.s>>,
           JsonBody(Props("yanked" :> yanked)))

acceptScopeInvite(scope) ==
  ApiWrite("POST", <<<<"/user/invites/">>, scope.s>>, NoBody)

declineScopeInvite(scope) ==
  ApiWrite("DELETE", <<<<"/user/invites/">>, scope.s>>, NoBody)

createAuthorization(challenge, permissions) ==
  ApiWrite("POST", <<<<"/authorizations">>>>,
           JsonBody(Props("challenge" :> challenge
                          @@ "permissions" :> permissions)))

getAuthorizationDetails(code) ==
  ApiGet(<<<<"/authorizations/details/">>, code.s>>)

approveAuthorization(code) ==
  ApiWrite("POST", <<<<"/authorizations/approve/">>, code.s>>, NoBody)

denyAuthorization(code) ==
  ApiWrite("POST", <<<<"/authorizations/deny/">>, code.s>>, NoBody)

exchangeAuthorizationCode(exchangeToken, verifier) ==
  ApiWrite("POST", <<<<"/authorizations/exchange">>>>,
           JsonBody(Props("exchangeToken" :> exchangeToken
                          @@ "verifier" :> verifier)))

----------------------------------------------------------------------------
(* Tool names.  A name is [pre, rest]: pre holds its first four characters  *)
(* (fewer when the name is shorter) and rest the remainder, so that         *)
(* name.startsWith("jsr_") is a test on pre.                                *)

ToolName(rest) == [pre |-> "jsr_", rest |-> rest]

\* A catalog that advertises one tool twice and another not at all.
createJSRToolsMiscounted ==
  <<"get_stats", "get_stats", "search_packages">>

\* createJSRTools(): the names of the array literal it returns, in order,
\* without the jsr_ prefix.
createJSRTools ==
  <<"search_packages", "get_package", "get_package_version",
    "list_package_versions", "get_scope", "list_scope_packages",
    "get_package_metadata", "list_packages", "get_package_dependents",
    "get_package_score", "get_package_dependencies", "get_current_user",
    "get_current_user_scopes", "get_current_user_scope_member",
    "get_current_user_invites", "get_user", "get_user_scopes",
    "list_scope_members", "list_scope_invites", "get_publishing_task",
    "get_stats", "create_scope", "update_scope", "delete_scope",
    "add_scope_member", "update_scope_member", "remove_scope_member",
    "delete_scope_invite", "create_package", "update_package",
    "delete_package", "create_package_version", "update_package_version",
    "accept_scope_invite", "decline_scope_invite", "create_authorization",
    "get_authorization_details", "approve_authorization",
    "deny_authorization", "exchange_authorization">>

StartsWithJsr(name) == name.pre = "jsr_"

VoidTools ==
  {"delete_scope", "remove_scope_member", "delete_scope_invite",
   "delete_package", "decline_scope_invite", "approve_authorization",
   "deny_authorization"}

NoArgTools ==
  {"get_current_user", "get_current_user_scopes",
   "get_current_user_invites", "get_stats"}

KnownTools ==
  {"search_packages", "get_package", "get_package_version",
   "list_package_versions", "get_scope", "list_scope_packages",
   "get_package_metadata", "list_packages", "get_package_dependents",
   "get_package_score", "get_package_dependencies",
   "get_current_user_scope_member", "get_user", "get_user_scopes",
   "list_scope_members", "list_scope_invites", "get_publishing_task",
   "create_scope", "update_scope", "add_scope_member",
   "update_scope_member", "create_package", "update_package",
   "create_package_version", "update_package_version",
   "accept_scope_invite", "create_authorization",
   "get_authorization_details", "exchange_authorization"}
  \cup VoidTools \cup NoArgTools

\* The schema each case of handleJSRTool parses args with.
ToolSchema(rest) ==
  CASE rest = "search_packages" -> SearchPackagesSchema
    [] rest \in {"get_package", "get_package_metadata", "get_package_score",
                 "delete_package"} -> GetPackageSchema
    [] rest \in {"get_package_version", "get_package_dependencies"} ->
         GetPackageVersionSchema
    [] rest = "list_package_versions" -> ListPackageVersionsSchema
    [] rest \in {"get_scope", "get_current_user_scope_member",
                 "list_scope_members", "list_scope_invites", "delete_scope",
                 "accept_scope_invite", "decline_scope_invite"} ->
         GetScopeSchema
    [] rest = "list_scope_packages" -> ListScopePackagesSchema
    [] rest = "list_packages" -> ListPackagesSchema
    [] rest = "get_package_dependents" -> GetPackageDependentsSchema
    [] rest \in {"get_user", "get_user_scopes"} -> GetUserSchema
    [] rest = "get_publishing_task" -> GetPublishingTaskSchema
    [] rest = "create_scope" -> CreateScopeSchema
    [] rest = "update_scope" -> UpdateScopeSchema
    [] rest = "add_scope_member" -> AddScopeMemberSchema
    [] rest = "update_scope_member" -> UpdateScopeMemberSchema
    [] rest = "remove_scope_member" -> RemoveScopeMemberSchema
    [] rest = "delete_scope_invite" -> DeleteScopeInviteSchema
    [] rest = "create_package" -> CreatePackageSchema
    [] rest = "update_package" -> UpdatePackageSchema
    [] rest = "create_package_version" -> CreatePackageVersionSchema
    [] rest = "update_package_version" -> UpdatePackageVersionSchema
    [] rest = "create_authorization" -> CreateAuthorizationSchema
    [] rest \in {"get_authorization_details", "approve_authorization",
                 "deny_authorization"} -> GetAuthorizationDetailsSchema
    [] rest = "exchange_authorization" -> ExchangeAuthorizationSchema
    [] OTHER -> NoSchema

\* The schema shape each server.tool registration passes to the SDK.
McpToolSchema(rest) ==
  CASE rest = "search_packages" -> McpSearchPackagesSchema
    [] rest \in {"get_package", "get_package_metadata", "get_package_score",
                 "delete_package"} -> McpGetPackageSchema
    [] rest \in {"get_package_version", "get_package_dependencies"} ->
         McpGetPackageVersionSchema
    [] rest = "list_package_versions" -> McpListPackageVersionsSchema
    [] rest \in {"get_scope", "get_current_user_scope_member",
                 "list_scope_members", "list_scope_invites", "delete_scope",
                 "accept_scope_invite", "decline_scope_invite"} ->
         McpGetScopeSchema
    [] rest = "list_scope_packages" -> McpListScopePackagesSchema
    [] rest = "list_packages" -> McpListPackagesSchema
    [] rest = "get_package_dependents" -> McpGetPackageDependentsSchema
    [] rest \in {"get_user", "get_user_scopes", "get_publishing_task"} ->
         McpGetUserSchema
    [] rest = "create_scope" -> McpCreateScopeSchema
    [] rest = "update_scope" -> McpUpdateScopeSchema
    [] rest = "add_scope_member" -> McpAddScopeMemberSchema
    [] rest = "update_scope_member" -> McpUpdateScopeMemberSchema
    [] rest \in {"remove_scope_member", "delete_scope_invite"} ->
         McpRemoveScopeMemberSchema
    [] rest = "create_package" -> McpCreatePackageSchema
    [] rest = "update_package" -> McpUpdatePackageSchema
    [] rest = "create_package_version" -> McpCreatePackageVersionSchema
    [] rest = "update_package_version" -> McpUpdatePackageVersionSchema
    [] rest = "create_authorization" -> McpCreateAuthorizationSchema
    [] rest \in {"get_authorization_details", "approve_authorization",
                 "deny_authorization"} -> McpGetAuthorizationDetailsSchema
    [] rest = "exchange_authorization" -> McpExchangeAuthorizationSchema
    [] OTHER -> NoSchema

\* const page = skip !== undefined && limit !== undefined ? ... : undefined
DispatcherSearchPage(skip, limit) ==
  IF Defined(skip) /\ Defined(limit) THEN PageOf(skip, limit) ELSE Undef

\* args.skip ? Math.floor(args.skip / (args.limit || 20)) + 1 : undefined
McpSearchPage(skip, limit) ==
  IF Truthy(skip) THEN PageOf(skip, LimitOr20(limit)) ELSE Undef

\* The remote operation each known tool invokes, on the parsed arguments a.
\* searchPage is the page the entry point computed for jsr_search_packages.
RemoteCall(rest, a, searchPage) ==
  CASE rest = "search_packages" ->
         searchPackages(a["query"], a["limit"], searchPage)
    [] rest = "get_package" -> getPackage(a["scope"], a["name"])
    [] rest = "get_package_version" ->
         getPackageVersion(a["scope"], a["name"], a["version"])
    [] rest = "list_package_versions" ->
         listPackageVersions(a["scope"], a["name"], a["limit"], a["page"])
    [] rest = "get_scope" -> getScope(a["scope"])
    [] rest = "list_scope_packages" ->
         listScopePackages(a["scope"], a["limit"], a["skip"])
    [] rest = "get_package_metadata" ->
         getPackageMetadata(a["scope"], a["name"])
    [] rest = "list_packages" ->
         listPackages(a["limit"], a["page"], a["query"])
    [] rest = "get_package_dependents" ->
         getPackageDependents(a["scope"], a["name"], a["limit"], a["page"],
                              a["versionsPerPackageLimit"])
    [] rest = "get_package_score" -> getPackageScore(a["scope"], a["name"])
    [] rest = "get_package_dependencies" ->
         getPackageDependencies(a["scope"], a["name"], a["version"])
    [] rest = "get_current_user" -> getCurrentUser
    [] rest = "get_current_user_scopes" -> getCurrentUserScopes
    [] rest = "get_current_user_scope_member" ->
         getCurrentUserScopeMember(a["scope"])
    [] rest = "get_current_user_invites" -> getCurrentUserInvites
    [] rest = "get_user" -> getUser(a["id"])
    [] rest = "get_user_scopes" -> getUserScopes(a["id"])
    [] rest = "list_scope_members" -> listScopeMembers(a["scope"])
    [] rest = "list_scope_invites" -> listScopeInvites(a["scope"])
    [] rest = "get_publishing_task" -> getPublishingTask(a["id"])
    [] rest = "get_stats" -> getStats
    [] rest = "create_scope" -> createScope(a["scope"], a["description"])
    [] rest = "update_scope" ->
         updateScope(a["scope"],
                     Props("ghActionsVerifyActor" :> a["ghActionsVerifyActor"]
                           @@ "requirePublishingFromCI" :>
                                a["requirePublishingFromCI"]))
    [] rest = "delete_scope" -> deleteScope(a["scope"])
    [] rest = "add_scope_member" ->
         addScopeMember(a["scope"], a["githubLogin"])
    [] rest = "update_scope_member" ->
         updateScopeMember(a["scope"], a["userId"], a["isAdmin"])
    [] rest = "remove_scope_member" ->
         removeScopeMember(a["scope"], a["userId"])
    [] rest = "delete_scope_invite" ->
         deleteScopeInvite(a["scope"], a["userId"])
    [] rest = "create_package" -> createPackage(a["scope"], a["package"])
    [] rest = "update_package" ->
         updatePackage(a["scope"], a["name"],
                       Props("description" :> a["description"]
                             @@ "githubRepository" :> a["githubRepository"]
                             @@ "runtimeCompat" :> a["runtimeCompat"]
                             @@ "isArchived" :> a["isArchived"]))
    [] rest = "delete_package" -> deletePackage(a["scope"], a["name"])
    [] rest = "create_package_version" ->
         createPackageVersion(a["scope"], a["name"], a["version"],
                              a["configPath"])
    [] rest = "update_package_version" ->
         updatePackageVersion(a["scope"], a["name"], a["version"],
                              a["yanked"])
    [] rest = "accept_scope_invite" -> acceptScopeInvite(a["scope"])
    [] rest = "decline_scope_invite" -> declineScopeInvite(a["scope"])
    [] rest = "create_authorization" ->
         createAuthorization(a["challenge"], a["permissions"])
    [] rest = "get_authorization_details" ->
         getAuthorizationDetails(a["code"])
    [] rest = "approve_authorization" -> approveAuthorization(a["code"])
    [] rest = "deny_authorization" -> denyAuthorization(a["code"])
    [] OTHER -> exchangeAuthorizationCode(a["exchangeToken"], a["verifier"])

\* The fixed confirmation string of a void tool in handleJSRTool.
Confirmation(rest) ==
  CASE rest = "delete_scope" -> "Scope deleted successfully"
    [] rest = "remove_scope_member" -> "Scope member removed successfully"
    [] rest = "delete_scope_invite" -> "Scope invite deleted successfully"
    [] rest = "delete_package" -> "Package deleted successfully"
    [] rest = "decline_scope_invite" -> "Scope invite declined successfully"
    [] rest = "approve_authorization" ->
         "Authorization approved successfully"
    [] OTHER -> "Authorization denied successfully"

\* The fixed confirmation string of a void tool in the McpServer handlers.
McpConfirmation(rest) ==
  CASE rest = "delete_scope" -> "Scope deleted successfully"
    [] rest = "remove_scope_member" -> "Member removed successfully"
    [] rest = "delete_scope_invite" -> "Invite deleted successfully"
    [] rest = "delete_package" -> "Package deleted successfully"
    [] rest = "decline_scope_invite" -> "Invite declined successfully"
    [] rest = "approve_authorization" ->
         "Authorization approved successfully"
    [] OTHER -> "Authorization denied successfully"

----------------------------------------------------------------------------
(* Request builders.  client is "server" for src/clients/jsr.ts (used by    *)
(* handleJSRTool) and "library" for the @wyattjoh/jsr client (used by the   *)
(* McpServer handlers).                                                     *)

UserAgent(client) ==
  IF client = "server"
  THEN Str(<<"jsr-mcp/", "version", "; https://github.com/wyattjoh/jsr-mcp">>)
  ELSE Str(<<"jsr-client/", "version",
             "; https://github.com/wyattjoh/jsr-mcp">>)

\* { ...defaults, ...options.headers }
Spread(defaults, over) ==
  [h \in HeaderNames |-> IF Defined(over[h]) THEN over[h] ELSE defaults[h]]

\* The Authorization header set first and the caller's headers spread last.
ApiRequestSpreadLast(client, cfg, call) ==
  LET defaults == [NoHeaders EXCEPT
                     !["Content-Type"] = Str(<<"application/json">>),
                     !["User-Agent"] = UserAgent(client)]
      withAuth == IF Truthy(cfg.apiToken)
                  THEN [defaults EXCEPT
                          !["Authorization"] =
                            Str(<<"Bearer ">> \o cfg.apiToken.s)]
                  ELSE defaults
  IN [url |-> <<cfg.apiUrl>> \o call.path, query |-> call.query,
      method |-> call.method, headers |-> Spread(withAuth, call.headers),
      body |-> call.body]

\* The request makeApiRequest hands to fetch.
ApiRequest(client, cfg, call) ==
  LET defaults == [NoHeaders EXCEPT
                     !["Content-Type"] = Str(<<"application/json">>),
                     !["User-Agent"] = UserAgent(client)]
      merged == Spread(defaults, call.headers)
      headers == IF Truthy(cfg.apiToken)
                 THEN [merged EXCEPT
                         !["Authorization"] =
                           Str(<<"Bearer ">> \o cfg.apiToken.s)]
                 ELSE merged
  IN [url |-> <<cfg.apiUrl>> \o call.path, query |-> call.query,
      method |-> call.method, headers |-> headers, body |-> call.body]

\* The request makeRegistryRequest hands to fetch.
RegistryRequest(client, cfg, call) ==
  LET defaults == [NoHeaders EXCEPT
                     !["Accept"] = Str(<<"application/json">>),
                     !["User-Agent"] = UserAgent(client)]
  IN [url |-> <<cfg.registryUrl>> \o call.path, query |-> call.query,
      method |-> call.method, headers |-> Spread(defaults, call.headers),
      body |-> call.body]

BuildRequest(client, cfg, call) ==
  IF call.builder = "api" THEN ApiRequest(client, cfg, call)
  ELSE RegistryRequest(client, cfg, call)

----------------------------------------------------------------------------
(* Responses and their decoding *)

\* A decoded JSON value: tag, array length, length of its items property
\* (-1 when it has none) and its total property (-1 when it has none).
JVal(t, len, items, total) ==
  [t |-> t, len |-> len, items |-> items, total |-> total]

JUndefined == JVal("undefined", 0, 0 - 1, 0 - 1)

Digits == <<"0", "1", "2", "3", "4", "5", "6", "7", "8", "9">>

\* `${response.status}` for a three-digit status.
StatusChars(st) ==
  <<Digits[(st \div 100) + 1], Digits[((st \div 10) % 10) + 1],
    Digits[(st % 10) + 1]>>

\* response.ok
ResponseOk(resp) == resp.status >= 200 /\ resp.status <= 299

Returned(value) == [ok |-> TRUE, value |-> value, msg |-> <<>>]

Thrown(msg) == [ok |-> FALSE, value |-> JUndefined, msg |-> msg]

\* await response.json()
ResponseJson(resp) ==
  CASE resp.body = "json" -> Returned(resp.json)
    [] resp.body = "empty" -> Thrown(<<"Unexpected end of JSON input">>)
    [] resp.body = "broken" -> Thrown(<<"error reading a body from connection">>)
    [] OTHER -> Thrown(<<"Unexpected token">>)

\* The body of the try block of makeApiRequest, after fetch settled.
ApiTry(client, resp) ==
  IF resp.net THEN Thrown(<<"error sending request">>)
  ELSE IF ~ResponseOk(resp)
  THEN IF resp.body = "broken"
       THEN Thrown(<<"error reading a body from connection">>)
       ELSE Thrown(<<"JSR API request failed: ">> \o StatusChars(resp.status)
                   \o <<" ", resp.statusText, ": ">> \o resp.text)
  ELSE IF client = "library" /\ resp.status = 204 THEN Returned(JUndefined)
  ELSE ResponseJson(resp)

\* A catch that replaces what was thrown by a fixed message.
makeApiRequestFixedMessage(client, resp) ==
  LET r == ApiTry(client, resp)
  IN IF r.ok THEN r
     ELSE Thrown(<<"JSR API request failed: ", "Unknown error">>)

\* makeApiRequest: whatever the try block throws is rethrown wrapped.
makeApiRequest(client, resp) ==
  LET r == ApiTry(client, resp)
  IN IF r.ok THEN r ELSE Thrown(<<"JSR API request failed: ">> \o r.msg)

\* The body of the try block of makeRegistryRequest, after fetch settled.
RegistryTry(client, resp) ==
  IF resp.net THEN Thrown(<<"error sending request">>)
  ELSE IF ~ResponseOk(resp)
  THEN Thrown(<<"JSR Registry request failed: ">>
              \o StatusChars(resp.status) \o <<" ", resp.statusText>>)
  ELSE IF client = "library" /\ resp.status = 204 THEN Returned(JUndefined)
  ELSE ResponseJson(resp)

makeRegistryRequest(client, resp) ==
  LET r == RegistryTry(client, resp)
  IN IF r.ok THEN r ELSE Thrown(<<"JSR Registry request failed: ">> \o r.msg)

----------------------------------------------------------------------------
(* What a remote operation returns to its caller *)

\* Non-paginated operations return the decoded value as is.
Raw(j) ==
  [pag |-> FALSE, data |-> j, total |-> Undef, returned |-> Undef,
   skip |-> Undef, limit |-> Undef]

OpReturned(value) == [ok |-> TRUE, value |-> value, msg |-> <<>>]

OpThrown(msg) == [ok |-> FALSE, value |-> Raw(JUndefined), msg |-> msg]

\* page ? (page - 1) * (limit || 20) : 0
SkipOfPage(page, limit) ==
  IF Truthy(page) THEN Num(((page.n - Q(1)) * LimitOr20(limit).n) \div 4)
  ELSE Num(0)

\* The reshaping done by listPackageVersions (response.length), by
\* getPackageDependents and by listScopePackages (response.items.length).
Reshape(post, j) ==
  CASE post.kind = "none" -> OpReturned(Raw(j))
    [] post.kind = "array" ->
         IF j.t \in {"undefined", "null"}
         THEN OpThrown(<<"Cannot read properties of ", j.t,
                         " (reading 'length')">>)
         ELSE LET len == IF j.t = "array" THEN Num(Q(j.len)) ELSE Undef
              IN OpReturned([pag |-> TRUE, data |-> j, total |-> len,
                             returned |-> len,
                             skip |-> SkipOfPage(post.page, post.limit),
                             limit |-> post.limit])
    [] OTHER ->
         IF j.t \in {"undefined", "null"}
         THEN OpThrown(<<"Cannot read properties of ", j.t,
                         " (reading 'items')">>)
         ELSE IF j.items < 0
         THEN OpThrown(<<"Cannot read properties of ", "undefined",
                         " (reading 'length')">>)
         ELSE OpReturned(
                [pag |-> TRUE, data |-> JVal("array", j.items, 0 - 1, 0 - 1),
                 total |-> IF j.total < 0 THEN Undef ELSE Num(Q(j.total)),
                 returned |-> Num(Q(j.items)),
                 skip |-> IF post.kind = "itemsPage"
                          THEN SkipOfPage(post.page, post.limit)
                          ELSE IF Truthy(post.skip) THEN post.skip
                          ELSE Num(0),
                 limit |-> post.limit])

\* A remote operation from the settling of its fetch to its return or throw.
RemoteResult(client, call, resp) ==
  LET r == IF call.builder = "api" THEN makeApiRequest(client, resp)
           ELSE makeRegistryRequest(client, resp)
  IN IF r.ok THEN Reshape(call.post, r.value) ELSE OpThrown(r.msg)

----------------------------------------------------------------------------
(* Result envelopes *)

\* A text: a string made of parts, or undefined.  The formatted JSON
\* serialization of a value is the part "json:" together with the value.
ErrorText(msg) ==
  [t |-> "string", parts |-> <<"Error: ">> \o msg, value |-> Raw(JUndefined)]

FixedText(str) ==
  [t |-> "string", parts |-> <<str>>, value |-> Raw(JUndefined)]

\* JSON.stringify(result, null, 2): undefined for undefined, text otherwise.
Stringify(result) ==
  IF ~result.pag /\ result.data.t = "undefined"
  THEN [t |-> "undefined", parts |-> <<>>, value |-> result]
  ELSE [t |-> "string", parts |-> <<"json:">>, value |-> result]

NoOutcome ==
  [kind |-> "none", content |-> <<>>, isError |-> "absent", code |-> "",
   msg |-> <<>>]

Envelope(text, isError) ==
  [kind |-> "envelope", content |-> <<[type |-> "text", text |-> text]>>,
   isError |-> isError, code |-> "", msg |-> <<>>]

\* throw new McpError(code, message)
Fault(code, msg) ==
  [kind |-> "fault", content |-> <<>>, isError |-> "absent", code |-> code,
   msg |-> msg]

NameText(name) == <<name.pre, name.rest>>

\* A boundary that lets the failure out as a protocol fault.
RethrowAsFault(msg) == Fault("InternalError", msg)

\* A catch block that forgets the flag.
CatchWithoutFlag(msg) == Envelope(ErrorText(msg), "absent")

\* The catch block of handleJSRTool.
DispatcherCatch(msg) == Envelope(ErrorText(msg), "true")

\* The catch block of every McpServer tool handler.
McpCatch(msg) == Envelope(ErrorText(msg), "absent")

\* The return statement of a case of handleJSRTool.
DispatcherSuccess(rest, result) ==
  IF rest \in VoidTools THEN Envelope(FixedText(Confirmation(rest)), "absent")
  ELSE Envelope(Stringify(result), "absent")

\* The return statement of the try block of a McpServer tool handler.
McpSuccess(rest, result) ==
  IF rest \in VoidTools
  THEN Envelope(FixedText(McpConfirmation(rest)), "absent")
  ELSE Envelope(Stringify(result), "absent")

ZodErrorMessage == <<"ZodError: invalid arguments">>

ReadFileErrorMessage == <<"No such file or directory (os error 2)">>

----------------------------------------------------------------------------
(* Inputs: names, argument objects, file reads and HTTP responses *)

NameTexts ==
  {<<"s", "t", "d">>, <<"a", "1", "-", "1", "b">>,
   <<"S", "t", "d">>, <<"1", "a">>, <<"-", "a">>, <<"a", "-">>,
   <<"a", "-", "-", "b">>, <<>>, <<"a", "/", "b">>, <<"a", ".", "b">>}

\* Values in quarters: -1, 0, 0.5, 1, 1.5, 10, 11, 100, 101.
NumberSamples == {0 - 4, 0, 2, 4, 6, 40, 44, 400, 404}

LongText(len) == [i \in 1..len |-> "x"]

Candidates(kind) ==
  CASE kind = "name" -> {Num(Q(1))} \cup {Str(cs) : cs \in NameTexts}
    [] kind = "string" ->
         {Num(Q(1)), Str(<<>>), Str(<<"x">>), Str(<<"a", "/", "b">>)}
    [] kind = "strmax" ->
         {Num(Q(1)), Str(<<"x">>), Str(LongText(250)), Str(LongText(251))}
    [] kind = "uuid" -> {Num(Q(1)), Str(UuidText), Str(<<"n", "o">>)}
    [] kind \in {"number", "min", "range"} ->
         {Str(<<"5">>), Null} \cup {Num(h) : h \in NumberSamples}
    [] kind = "boolean" ->
         {Bool(TRUE), Bool(FALSE), Str(<<"t", "r", "u", "e">>)}
    [] kind \in {"repo", "repoName"} ->
         {Null, Obj(<<"owner", "repo">>), Obj(<<"owner", "name">>),
          Obj(<<"owner">>), Str(<<"x">>)}
    [] kind = "runtimeCompat" -> {Obj(<<>>), Obj(<<"deno">>), Str(<<"x">>)}
    [] kind = "permissions" ->
         {Arr(<<>>), Arr(<<"scope">>), Arr(<<"scope", "invalid">>),
          Str(<<"x">>)}
    [] OTHER -> {}

\* A value a field accepts; undefined for an optional field.
BaseValue(f) ==
  IF f.opt THEN Undef
  ELSE CASE f.kind = "name" -> Str(<<"s", "t", "d">>)
         [] f.kind = "uuid" -> Str(UuidText)
         [] f.kind = "boolean" -> Bool(TRUE)
         [] OTHER -> Str(<<"x">>)

KeyOrder ==
  <<"scope", "name", "version", "query", "limit", "skip", "page",
    "versionsPerPackageLimit", "id", "userId", "description",
    "ghActionsVerifyActor", "requirePublishingFromCI", "githubLogin",
    "isAdmin", "package", "githubRepository", "runtimeCompat", "isArchived",
    "configPath", "tarballPath", "yanked", "challenge", "permissions", "code",
    "exchangeToken", "verifier">>

\* The changes tried on the minimal object of a schema: a declared key, by
\* its position in KeyOrder, with a value other than the one it has there.
Changes(schema) ==
  UNION {{[j |-> j, v |-> v]
            : v \in (Candidates(schema[KeyOrder[j]].kind) \cup {Undef})
                      \ {BaseValue(schema[KeyOrder[j]])}}
           : j \in {k \in 1..Len(KeyOrder) : schema[KeyOrder[k]].kind # "none"}}

\* The sequences of at most n changes, of keys in increasing position, all
\* after position i.
RECURSIVE ChangeChains(_, _, _)
ChangeChains(changes, n, i) ==
  IF n = 0 THEN {<<>>}
  ELSE {<<>>} \cup
       UNION {{<<c>> \o rest : rest \in ChangeChains(changes, n - 1, c.j)}
                : c \in {d \in changes : d.j > i}}

\* The property map f after the changes of a chain.
RECURSIVE Changed(_, _)
Changed(f, chain) ==
  IF chain = <<>> THEN f
  ELSE Changed([f EXCEPT ![KeyOrder[chain[1].j]] = chain[1].v], Tail(chain))

\* The raw arguments tried against a schema: the objects that differ from
\* the minimal valid one in at most MaxPerturbed declared keys, and a value
\* that is not an object.
ArgObjects(schema) ==
  {[obj |-> TRUE,
    f |-> Changed([k \in Keys |-> BaseValue(schema[k])], chain)]
     : chain \in ChangeChains(Changes(schema), MaxPerturbed, 0)}
  \cup {[obj |-> FALSE, f |-> NoFields]}

UnknownNames ==
  {[pre |-> "jsr_", rest |-> "unknown_tool"], [pre |-> "jsr_", rest |-> ""],
   [pre |-> "get_", rest |-> "package"],
   [pre |-> "JSR_", rest |-> "get_package"], [pre |-> "", rest |-> ""]}

Names == {ToolName(rest) : rest \in KnownTools} \cup UnknownNames

\* A switch that only looks at the prefix.
HasJsrPrefix(name) == StartsWithJsr(name)

\* The case of the switch a name selects.
IsKnown(name) == StartsWithJsr(name) /\ name.rest \in KnownTools

Resp(net, status, statusText, body, json, text) ==
  [net |-> net, status |-> status, statusText |-> statusText, body |-> body,
   json |-> json, text |-> text]

JsonSamples ==
  {JVal("object", 0, 0 - 1, 0 - 1), JVal("null", 0, 0 - 1, 0 - 1),
   JVal("object", 0, 0, 0 - 1)}
  \cup {JVal("array", len, 0 - 1, 0 - 1) : len \in 0..MaxItems}
  \cup {JVal("object", 0, len, len + 1) : len \in 0..MaxItems}

BodyText == <<"package not found">>

\* Everything fetch and the body readers can do: reject, answer 2xx with a
\* JSON body, with an undecodable or empty or unreadable body, answer 204
\* with no body, answer non-2xx with a text body.
Responses ==
  {Resp(TRUE, 0, "", "empty", JUndefined, <<>>),
   Resp(FALSE, 200, "OK", "garbage", JUndefined, <<"<", "html", ">">>),
   Resp(FALSE, 200, "OK", "empty", JUndefined, <<>>),
   Resp(FALSE, 200, "OK", "broken", JUndefined, <<>>),
   Resp(FALSE, 204, "No Content", "empty", JUndefined, <<>>),
   Resp(FALSE, 404, "Not Found", "text", JUndefined, BodyText),
   Resp(FALSE, 500, "Internal Server Error", "empty", JUndefined, <<>>),
   Resp(FALSE, 503, "Service Unavailable", "broken", JUndefined, <<>>)}
  \cup {Resp(FALSE, 200, "OK", "json", j, <<"json:">>) : j \in JsonSamples}

Configs ==
  {[apiUrl |-> <<"https://api.jsr.io">>, registryUrl |-> <<"https://jsr.io">>,
    apiToken |-> tok] : tok \in {Undef, Str(<<"tok">>)}}

----------------------------------------------------------------------------
(* State *)

VARIABLES
  config,    \* the connection configuration created at startup
  pc,        \* "idle", "reading" (awaiting Deno.readFile),
             \* "fetching" (awaiting fetch and the body), "done"
  entry,     \* entry point of the invocation in progress:
             \* "dispatcher" (handleJSRTool called directly), "calltool"
             \* (the CallTool handler of the Server), "mcp" (a McpServer
             \* tool handler), "none"
  name,      \* operation name of the invocation
  args,      \* raw arguments of the invocation
  call,      \* the remote call awaiting its response
  requests,  \* the requests handed to fetch by this invocation, in order
  reads,     \* number of Deno.readFile calls made by this invocation
  response,  \* what the fetch of this invocation settled with
  outcome,   \* the envelope returned, or the protocol fault thrown
  boot,      \* the startup of the process: which entry point runs, how
             \* far it got, the environment it read, the probe's result
  flights    \* invocations in flight side by side, one record per slot

vars ==
  <<config, pc, entry, name, args, call, requests, reads, response, outcome,
    boot, flights>>

\* No connection test has settled.
NoProbe == [kind |-> "none", success |-> FALSE, error |-> Undef]

NoEnv ==
  [JSR_API_URL |-> Undef, JSR_REGISTRY_URL |-> Undef, JSR_API_TOKEN |-> Undef]

\* The process once its transport is connected.
Serving ==
  [program |-> "any", phase |-> "running", env |-> NoEnv, probe |-> NoProbe,
   fault |-> "none", exitCode |-> 0 - 1]

NoName == [pre |-> "", rest |-> ""]

NoArgs == [obj |-> FALSE, f |-> NoFields]

NoCall == Call("none", <<>>, <<>>, "", NoHeaders, NoBody, NoPost)

NoResponse == Resp(FALSE, 0, "", "none", JUndefined, <<>>)

Init ==
  /\ config \in Configs
  /\ pc = "idle"
  /\ entry = "none"
  /\ name = NoName
  /\ args = NoArgs
  /\ call = NoCall
  /\ requests = <<>>
  /\ reads = 0
  /\ response = NoResponse
  /\ outcome = NoOutcome
  /\ boot = Serving
  /\ flights = <<>>

Client(e) == IF e = "mcp" THEN "library" ELSE "server"

Catch(e, msg) == IF e = "mcp" THEN McpCatch(msg) ELSE DispatcherCatch(msg)

Success(e, rest, result) ==
  IF e = "mcp" THEN McpSuccess(rest, result)
  ELSE DispatcherSuccess(rest, result)

\* The invocation ends at once with the given outcome.
Finish(e, nm, ar, out) ==
  /\ pc' = "done"
  /\ entry' = e
  /\ name' = nm
  /\ args' = ar
  /\ outcome' = out
  /\ UNCHANGED <<config, call, requests, reads, response, boot, flights>>

\* The handler reaches its first await: Deno.readFile for the upload tool,
\* fetch for every other tool.
Start(e, nm, ar, c) ==
  /\ entry' = e
  /\ name' = nm
  /\ args' = ar
  /\ call' = c
  /\ IF nm.rest = "create_package_version"
     THEN /\ pc' = "reading"
          /\ reads' = reads + 1
          /\ UNCHANGED requests
     ELSE /\ pc' = "fetching"
          /\ requests' = Append(requests, BuildRequest(Client(e), config, c))
          /\ UNCHANGED reads
  /\ UNCHANGED <<config, response, outcome, boot, flights>>

\* A dispatcher that hands the raw arguments to the operation unparsed.
EnterWithoutParse(e, nm, ar) ==
  IF ~IsKnown(nm)
  THEN Finish(e, nm, ar,
              DispatcherCatch(<<"Unknown JSR tool: ">> \o NameText(nm)))
  ELSE LET a == Parsed(ToolSchema(nm.rest), ar)
       IN Start(e, nm, ar,
                RemoteCall(nm.rest, a,
                           DispatcherSearchPage(a["skip"], a["limit"])))

\* handleJSRTool(name, args, config) up to its first await or its return.
EnterHandleJSRTool(e, nm, ar) ==
  IF ~IsKnown(nm)
  THEN Finish(e, nm, ar,
              DispatcherCatch(<<"Unknown JSR tool: ">> \o NameText(nm)))
  ELSE IF nm.rest \notin NoArgTools /\ ~ParseOk(ToolSchema(nm.rest), ar)
  THEN Finish(e, nm, ar, DispatcherCatch(ZodErrorMessage))
  ELSE LET a == Parsed(ToolSchema(nm.rest), ar)
       IN Start(e, nm, ar,
                RemoteCall(nm.rest, a,
                           DispatcherSearchPage(a["skip"], a["limit"])))

\* The raw arguments tried against each tool, by tool: against its zod
\* schema and against the shape registered with the McpServer.
ToolArgObjects == [rest \in KnownTools |-> ArgObjects(ToolSchema(rest))]

McpArgObjects == [rest \in KnownTools |-> ArgObjects(McpToolSchema(rest))]

UnknownArgObjects == ArgObjects(NoSchema)

ArgsFor(nm) ==
  IF IsKnown(nm) /\ nm.rest \in KnownTools THEN ToolArgObjects[nm.rest]
  ELSE UnknownArgObjects

\* A direct call of the exported dispatcher.
HandleJSRTool ==
  /\ pc = "idle"
  /\ \E nm \in Names : \E ar \in ArgsFor(nm) :
       EnterHandleJSRTool("dispatcher", nm, ar)

\* A CallTool handler that hands every name to handleJSRTool.
CallToolRequestAnyName ==
  /\ pc = "idle"
  /\ \E nm \in Names : \E ar \in ArgsFor(nm) :
       EnterHandleJSRTool("calltool", nm, ar)

\* The CallToolRequestSchema handler of the Server.
CallToolRequest ==
  /\ pc = "idle"
  /\ \E nm \in Names : \E ar \in ArgsFor(nm) :
       IF StartsWithJsr(nm) THEN EnterHandleJSRTool("calltool", nm, ar)
       ELSE Finish("calltool", nm, ar,
                   Fault("MethodNotFound",
                         <<"Unknown tool: ">> \o NameText(nm)))

\* A tool handler registered by createServer, called by the McpServer with
\* arguments that passed the registered schema shape.
McpToolHandler ==
  /\ pc = "idle"
  /\ \E rest \in KnownTools :
       \E ar \in McpArgObjects[rest] :
         /\ ParseOk(McpToolSchema(rest), ar)
         /\ LET a == Parsed(McpToolSchema(rest), ar)
            IN Start("mcp", ToolName(rest), ar,
                     RemoteCall(rest, a,
                                McpSearchPage(a["skip"], a["limit"])))

\* Deno.readFile(tarballPath) settles; on success the request is issued.
ReadFileSettles ==
  /\ pc = "reading"
  /\ \E ok \in BOOLEAN :
       IF ok
       THEN /\ pc' = "fetching"
            /\ requests' =
                 Append(requests, BuildRequest(Client(entry), config, call))
            /\ UNCHANGED outcome
       ELSE /\ pc' = "done"
            /\ outcome' = Catch(entry, ReadFileErrorMessage)
            /\ UNCHANGED requests
  /\ UNCHANGED <<config, entry, name, args, call, reads, response, boot,
                 flights>>

\* A client that sends the request once more when fetch rejects.
FetchSettlesWithRetry ==
  /\ pc = "fetching"
  /\ \E resp \in Responses :
       IF resp.net /\ Len(requests) < 2
       THEN /\ requests' = Append(requests, requests[1])
            /\ UNCHANGED <<pc, response, outcome>>
       ELSE LET r == RemoteResult(Client(entry), call, resp)
            IN /\ response' = resp
               /\ outcome' = IF r.ok THEN Success(entry, name.rest, r.value)
                             ELSE Catch(entry, r.msg)
               /\ pc' = "done"
               /\ UNCHANGED requests
  /\ UNCHANGED <<config, entry, name, args, call, reads, boot, flights>>

\* fetch settles and the handler runs to its return.
FetchSettles ==
  /\ pc = "fetching"
  /\ \E resp \in Responses :
       LET r == RemoteResult(Client(entry), call, resp)
       IN /\ response' = resp
          /\ outcome' = IF r.ok THEN Success(entry, name.rest, r.value)
                        ELSE Catch(entry, r.msg)
  /\ pc' = "done"
  /\ UNCHANGED <<config, entry, name, args, call, requests, reads, boot,
                 flights>>

\* The caller has the outcome; the invocation's locals are gone.
Return ==
  /\ pc = "done"
  /\ pc' = "idle"
  /\ entry' = "none"
  /\ name' = NoName
  /\ args' = NoArgs
  /\ call' = NoCall
  /\ requests' = <<>>
  /\ reads' = 0
  /\ response' = NoResponse
  /\ outcome' = NoOutcome
  /\ UNCHANGED <<config, boot, flights>>

----------------------------------------------------------------------------
(* Startup: main and runServer of the server entry point, startLocalServer  *)
(* of the McpServer entry point.                                            *)

DefaultApiUrl == <<"https://api.jsr.io">>

DefaultRegistryUrl == <<"https://jsr.io">>

\* url.replace(/\/$/, ""): the first match of a slash at the end.
RemoveTrailingSlash(url) ==
  IF Len(url) > 0 /\ url[Len(url)] = "/" THEN SubSeq(url, 1, Len(url) - 1)
  ELSE url

createJSRConfig(apiUrl, registryUrl, apiToken) ==
  [apiUrl |-> RemoveTrailingSlash(apiUrl),
   registryUrl |-> RemoveTrailingSlash(registryUrl), apiToken |-> apiToken]

\* Deno.env.get(name) || fallback
EnvOr(v, fallback) == IF Truthy(v) THEN v.s ELSE fallback

loadConfig(env) ==
  createJSRConfig(EnvOr(env.JSR_API_URL, DefaultApiUrl),
                  EnvOr(env.JSR_REGISTRY_URL, DefaultRegistryUrl),
                  env.JSR_API_TOKEN)

\* searchPackages(config, undefined, 1)
ProbeCall == searchPackages(Undef, Num(Q(1)), Undef)

\* A probe that lets the failure of its request out.
testConnectionRethrows(client, resp) ==
  LET r == RemoteResult(client, ProbeCall, resp)
  IN IF r.ok THEN [kind |-> "resolved", success |-> TRUE, error |-> Undef]
     ELSE [kind |-> "thrown", success |-> FALSE, error |-> Str(r.msg)]

\* testConnection from the settling of its request to its result.
testConnection(client, resp) ==
  LET r == RemoteResult(client, ProbeCall, resp)
  IN IF r.ok THEN [kind |-> "resolved", success |-> TRUE, error |-> Undef]
     ELSE [kind |-> "resolved", success |-> FALSE, error |-> Str(r.msg)]

ProgramClient(program) == IF program = "main" THEN "server" ELSE "library"

\* A startup that gives up when the probe did not succeed.
AfterProbeStrict(program, probe) ==
  IF probe.kind = "resolved" /\ probe.success
  THEN IF program = "main" THEN "connecting" ELSE "creating"
  ELSE IF program = "main" THEN "exited" ELSE "rejected"

\* Where the try/catch around the probe leaves the startup: each of its
\* three branches logs and falls through to the transport (main) or to the
\* creation of the server (startLocalServer).
AfterProbe(program, probe) ==
  IF program = "main" THEN "connecting" ELSE "creating"

UrlSamples(url) ==
  {Undef, Str(<<>>), Str(<<"/">>), Str(<<url>>), Str(<<url, "/">>),
   Str(<<url, "/", "/">>)}

Envs ==
  {[JSR_API_URL |-> a, JSR_REGISTRY_URL |-> r, JSR_API_TOKEN |-> t]
     : a \in UrlSamples("http://localhost:8000"),
       r \in UrlSamples("http://localhost:8001")
              \ {Str(<<>>), Str(<<"/">>)},
       t \in {Undef, Str(<<>>), Str(<<"tok">>)}}

NoConfig == [apiUrl |-> <<>>, registryUrl |-> <<>>, apiToken |-> Undef]

StartupInit ==
  /\ boot \in {[program |-> p, phase |-> "start", env |-> e,
                 probe |-> NoProbe, fault |-> "none", exitCode |-> 0 - 1]
                : p \in {"main", "startLocalServer"}, e \in Envs}
  /\ config = NoConfig
  /\ pc = "idle"
  /\ entry = "none"
  /\ name = NoName
  /\ args = NoArgs
  /\ call = NoCall
  /\ requests = <<>>
  /\ reads = 0
  /\ response = NoResponse
  /\ outcome = NoOutcome
  /\ flights = <<>>

\* The probe's request goes out under the configuration just created.
StartProbe(cfg) ==
  /\ config' = cfg
  /\ call' = ProbeCall
  /\ requests' =
       Append(requests, BuildRequest(ProgramClient(boot.program), cfg,
                                     ProbeCall))

\* The startup stops with a fault thrown by the named step.
Stop(step) ==
  boot' = [boot EXCEPT
             !.fault = step,
             !.phase = IF boot.program = "main" THEN "exited" ELSE "rejected",
             !.exitCode = IF boot.program = "main" THEN 1 ELSE boot.exitCode]

\* main: createServer() with its loadConfig(), then runServer up to the
\* await of the connection test; a throw lands in main's catch.
MainCreateServer ==
  /\ boot.program = "main" /\ boot.phase = "start"
  /\ \E ok \in BOOLEAN :
       IF ok
       THEN /\ boot' = [boot EXCEPT !.phase = "probing"]
            /\ StartProbe(loadConfig(boot.env))
       ELSE /\ Stop("createServer")
            /\ UNCHANGED <<config, call, requests>>
  /\ UNCHANGED <<pc, entry, name, args, reads, response, outcome, flights>>

\* startLocalServer: await load()
LoadDotenv ==
  /\ boot.program = "startLocalServer" /\ boot.phase = "start"
  /\ \E ok \in BOOLEAN :
       IF ok THEN boot' = [boot EXCEPT !.phase = "loaded"] ELSE Stop("load")
  /\ UNCHANGED <<config, pc, entry, name, args, call, requests, reads,
                 response, outcome, flights>>

\* startLocalServer: the environment is read, the configuration created
\* and the connection test awaited.
CreateConfig ==
  /\ boot.program = "startLocalServer" /\ boot.phase = "loaded"
  /\ boot' = [boot EXCEPT !.phase = "probing"]
  /\ StartProbe(loadConfig(boot.env))
  /\ UNCHANGED <<pc, entry, name, args, reads, response, outcome, flights>>

\* The request of the connection test settles.
TestConnectionSettles ==
  /\ boot.phase = "probing"
  /\ \E resp \in Responses :
       LET probe == testConnection(ProgramClient(boot.program), resp)
       IN /\ response' = resp
          /\ boot' = [boot EXCEPT !.probe = probe,
                                  !.phase = AfterProbe(boot.program, probe)]
  /\ UNCHANGED <<config, pc, entry, name, args, call, requests, reads,
                 outcome, flights>>

\* startLocalServer: createServer(config)
CreateMcpServer ==
  /\ boot.phase = "creating"
  /\ \E ok \in BOOLEAN :
       IF ok THEN boot' = [boot EXCEPT !.phase = "connecting"]
       ELSE Stop("createServer")
  /\ UNCHANGED <<config, pc, entry, name, args, call, requests, reads,
                 response, outcome, flights>>

\* await server.connect(transport)
ConnectSettles ==
  /\ boot.phase = "connecting"
  /\ \E ok \in BOOLEAN :
       IF ok THEN boot' = [boot EXCEPT !.phase = "running"]
       ELSE Stop("connect")
  /\ UNCHANGED <<config, pc, entry, name, args, call, requests, reads,
                 response, outcome, flights>>

StartupNext ==
  \/ MainCreateServer
  \/ LoadDotenv
  \/ CreateConfig
  \/ TestConnectionSettles
  \/ CreateMcpServer
  \/ ConnectSettles

StartupSpec == StartupInit /\ [][StartupNext]_vars

----------------------------------------------------------------------------

Next ==
  \/ HandleJSRTool
  \/ CallToolRequest
  \/ McpToolHandler
  \/ ReadFileSettles
  \/ FetchSettles
  \/ Return

Spec == Init /\ [][Next]_vars

----------------------------------------------------------------------------
(* Invocations in flight side by side.  A handler runs on the one           *)
(* JavaScript thread up to its next await and then yields to the event      *)
(* loop, which may start another handler or resume any handler whose        *)
(* promise has settled.  The locals of a handler (name, args, the call, the *)
(* response) live in its own activation, one record per slot of flights;    *)
(* the only value the activations have in common is the configuration      *)
(* object each of them is passed.                                           *)

MaxInFlight == 2

Slots == 1..MaxInFlight

IdleFlight ==
  [pc |-> "idle", entry |-> "none", name |-> NoName, args |-> NoArgs,
   cfg |-> NoConfig, call |-> NoCall, requests |-> <<>>, reads |-> 0,
   response |-> NoResponse, served |-> 0, outcome |-> NoOutcome, overlap |-> FALSE]

ConcurrentInit ==
  /\ config \in Configs
  /\ pc = "idle"
  /\ entry = "none"
  /\ name = NoName
  /\ args = NoArgs
  /\ call = NoCall
  /\ requests = <<>>
  /\ reads = 0
  /\ response = NoResponse
  /\ outcome = NoOutcome
  /\ boot = Serving
  /\ flights = [i \in Slots |-> IdleFlight]

\* The smallest arguments a schema accepts.
MinimalArgs(schema) ==
  [obj |-> TRUE, f |-> [k \in Keys |-> BaseValue(schema[k])]]

\* The invocations started side by side: at each entry point, calls that
\* return before any await and calls that await a read or a fetch.
ConcurrentCalls ==
  {[e |-> "dispatcher", nm |-> ToolName("get_stats"),
    ar |-> MinimalArgs(NoSchema)],
   [e |-> "dispatcher", nm |-> ToolName("get_package"), ar |-> NoArgs],
   [e |-> "calltool", nm |-> ToolName("search_packages"),
    ar |-> MinimalArgs(ToolSchema("search_packages"))],
   [e |-> "calltool", nm |-> [pre |-> "get_", rest |-> "package"],
    ar |-> MinimalArgs(NoSchema)],
   [e |-> "mcp", nm |-> ToolName("create_package_version"),
    ar |-> MinimalArgs(McpToolSchema("create_package_version"))]}

ConcurrentResponses ==
  {Resp(TRUE, 0, "", "empty", JUndefined, <<>>),
   Resp(FALSE, 404, "Not Found", "text", JUndefined, BodyText),
   Resp(FALSE, 200, "OK", "json", JVal("object", 0, 0 - 1, 0 - 1),
        <<"json:">>)}

\* The activation returns (or throws) without awaiting anything further.
Ended(fl, out) == [fl EXCEPT !.pc = "done", !.outcome = out]

\* The request of the activation goes to fetch, built from the
\* configuration the handler was passed.
Fetching(fl) ==
  [fl EXCEPT !.pc = "fetching",
             !.requests =
               Append(@, BuildRequest(Client(fl.entry), fl.cfg, fl.call))]

\* A dispatcher that serves the later steps of an authorization only after
\* jsr_create_authorization has been served.
AwaitingAfterCreate(fl, c) ==
  IF /\ fl.name.rest \in {"get_authorization_details", "approve_authorization",
                          "deny_authorization", "exchange_authorization"}
     /\ \A j \in DOMAIN flights : flights[j].name.rest # "create_authorization"
  THEN Ended(fl, DispatcherCatch(<<"No authorization in progress">>))
  ELSE IF fl.name.rest = "create_package_version"
  THEN [fl EXCEPT !.pc = "reading", !.call = c, !.reads = @ + 1]
  ELSE Fetching([fl EXCEPT !.call = c])

\* The activation reaches its first await: Deno.readFile for the upload
\* tool, fetch for every other tool.
Awaiting(fl, c) ==
  IF fl.name.rest = "create_package_version"
  THEN [fl EXCEPT !.pc = "reading", !.call = c, !.reads = @ + 1]
  ELSE Fetching([fl EXCEPT !.call = c])

\* A handler called with (nm, ar) at entry point e and passed cfg, run up to
\* its first await or its return; overlap tells whether another handler was
\* waiting when this one was called.
Entered(e, nm, ar, cfg, overlap) ==
  LET fl == [IdleFlight EXCEPT !.entry = e, !.name = nm, !.args = ar,
                               !.cfg = cfg, !.overlap = overlap]
  IN IF e = "mcp"
     THEN LET a == Parsed(McpToolSchema(nm.rest), ar)
          IN Awaiting(fl, RemoteCall(nm.rest, a,
                                     McpSearchPage(a["skip"], a["limit"])))
     ELSE IF e = "calltool" /\ ~StartsWithJsr(nm)
     THEN Ended(fl, Fault("MethodNotFound",
                          <<"Unknown tool: ">> \o NameText(nm)))
     ELSE IF ~IsKnown(nm)
     THEN Ended(fl, DispatcherCatch(<<"Unknown JSR tool: ">> \o NameText(nm)))
     ELSE IF nm.rest \notin NoArgTools /\ ~ParseOk(ToolSchema(nm.rest), ar)
     THEN Ended(fl, DispatcherCatch(ZodErrorMessage))
     ELSE LET a == Parsed(ToolSchema(nm.rest), ar)
          IN Awaiting(fl, RemoteCall(nm.rest, a,
                                     DispatcherSearchPage(a["skip"],
                                                          a["limit"])))

\* The activation resumes with the response that answers the fetch of slot
\* by, and runs to its return.
Resumed(fl, resp, by) ==
  LET r == RemoteResult(Client(fl.entry), fl.call, resp)
  IN [fl EXCEPT !.pc = "done", !.response = resp, !.served = by,
                !.outcome = IF r.ok
                            THEN Success(fl.entry, fl.name.rest, r.value)
                            ELSE Catch(fl.entry, r.msg)]

Waiting == {j \in Slots : flights[j].pc \in {"reading", "fetching"}}

\* Responses handed to the handler that has waited longest, as from one
\* queue shared by all handlers.
FirstWaiting(i) ==
  CHOOSE j \in Slots :
    /\ flights[j].pc = "fetching"
    /\ \A k \in Slots : flights[k].pc = "fetching" => j <= k

\* The activation resumed when the fetch of slot i settles: the one that
\* awaits the promise this very call of fetch returned.
Recipient(i) == i

Frame == <<config, pc, entry, name, args, call, requests, reads, response,
           outcome, boot>>

\* A tool call arrives while any number of others are in flight.
InvokeIn(i) ==
  /\ flights[i].pc = "idle"
  /\ \E c \in ConcurrentCalls :
       /\ c.e = "mcp" =>
            IsKnown(c.nm) /\ ParseOk(McpToolSchema(c.nm.rest), c.ar)
       /\ flights' =
            [flights EXCEPT
               ![i] = Entered(c.e, c.nm, c.ar, config, Waiting # {})]
  /\ UNCHANGED Frame

ReadFileSettlesIn(i) ==
  /\ flights[i].pc = "reading"
  /\ \E ok \in BOOLEAN :
       flights' =
         [flights EXCEPT
            ![i] = IF ok THEN Fetching(@)
                   ELSE Ended(@, Catch(@.entry, ReadFileErrorMessage))]
  /\ UNCHANGED Frame

FetchSettlesIn(i) ==
  /\ flights[i].pc = "fetching"
  /\ \E resp \in ConcurrentResponses :
       flights' = [flights EXCEPT ![Recipient(i)] = Resumed(@, resp, i)]
  /\ UNCHANGED Frame

ReturnIn(i) ==
  /\ flights[i].pc = "done"
  /\ flights' = [flights EXCEPT ![i] = IdleFlight]
  /\ UNCHANGED Frame

Invoke == \E i \in Slots : InvokeIn(i)

FlightReadFileSettles == \E i \in Slots : ReadFileSettlesIn(i)

FlightFetchSettles == \E i \in Slots : FetchSettlesIn(i)

FlightReturn == \E i \in Slots : ReturnIn(i)

ConcurrentNext ==
  \/ Invoke
  \/ FlightReadFileSettles
  \/ FlightFetchSettles
  \/ FlightReturn

ConcurrentSpec == ConcurrentInit /\ [][ConcurrentNext]_vars

----------------------------------------------------------------------------
(* The authorization tools called one after another.  Here flights keeps     *)
(* every invocation made since startup, in order, so that what an           *)
(* invocation did can be compared with what went before it.                 *)

MaxCalls == 3

AuthorizationTools ==
  {"create_authorization", "get_authorization_details",
   "approve_authorization", "deny_authorization", "exchange_authorization"}

\* Each authorization tool with the smallest arguments it accepts and with
\* arguments it rejects.
AuthorizationCalls ==
  UNION {{[nm |-> ToolName(rest), ar |-> MinimalArgs(ToolSchema(rest))],
          [nm |-> ToolName(rest), ar |-> MinimalArgs(NoSchema)]}
           : rest \in AuthorizationTools}

AuthorizationResponses ==
  {Resp(FALSE, 404, "Not Found", "text", JUndefined, BodyText),
   Resp(FALSE, 200, "OK", "json", JVal("object", 0, 0 - 1, 0 - 1),
        <<"json:">>)}

\* handleJSRTool is called for an authorization tool once the call before
\* it has returned.
CallAuthorizationTool ==
  /\ Len(flights) < MaxCalls
  /\ \A j \in DOMAIN flights : flights[j].pc = "done"
  /\ \E c \in AuthorizationCalls :
       flights' =
         Append(flights, Entered("dispatcher", c.nm, c.ar, config, FALSE))
  /\ UNCHANGED Frame

\* The fetch of the call in progress settles.
AuthorizationSettles ==
  /\ flights # <<>>
  /\ flights[Len(flights)].pc = "fetching"
  /\ \E resp \in AuthorizationResponses :
       flights' =
         [flights EXCEPT ![Len(flights)] = Resumed(@, resp, Len(flights))]
  /\ UNCHANGED Frame

AuthorizationNext ==
  \/ CallAuthorizationTool
  \/ AuthorizationSettles

AuthorizationSpec == Init /\ [][AuthorizationNext]_vars

----------------------------------------------------------------------------
(* handleJSRTool called with arguments that carry keys the schema of the    *)
(* tool does not declare, at the top level and inside nested objects.       *)

\* Nested values with and without a key their schema does not declare.
NestedSamples(kind) ==
  CASE kind = "repo" ->
         {Obj(<<"owner", "repo">>), Obj(<<"owner", "repo", "extra">>)}
    [] kind = "runtimeCompat" ->
         {Obj(<<"deno">>), Obj(<<"deno", "extra">>)}
    [] kind = "permissions" -> {Arr(<<"scope">>), Arr(<<"scope+extra">>)}
    [] OTHER -> {}

\* Properties a caller may add to any argument object.
AddedProperties ==
  {[k |-> "limit", v |-> Num(Q(5))], [k |-> "page", v |-> Num(Q(2))],
   [k |-> "scope", v |-> Str(<<"a", "/", "b">>)],
   [k |-> "query", v |-> Str(<<"x">>)], [k |-> "githubRepository", v |-> Null]}

\* f with the added properties whose keys the schema does not declare.
WithAdded(schema, f, added) ==
  [k \in Keys |->
     IF k \notin Declared(schema) /\ \E p \in added : p.k = k
     THEN (CHOOSE p \in added : p.k = k).v
     ELSE f[k]]

\* The smallest valid arguments of a schema, with at most one nested value
\* set, and with any of the added properties.
ArgObjectsWithExtras(schema) ==
  LET base == [k \in Keys |-> BaseValue(schema[k])]
      nested == {base}
                \cup UNION {{[base EXCEPT ![k] = v]
                               : v \in NestedSamples(schema[k].kind)}
                              : k \in Declared(schema)}
  IN {[obj |-> TRUE, f |-> WithAdded(schema, f, added)]
        : f \in nested, added \in SUBSET AddedProperties}

HandleJSRToolWithExtras ==
  /\ pc = "idle"
  /\ \E rest \in KnownTools : \E ar \in ArgObjectsWithExtras(ToolSchema(rest)) :
       EnterHandleJSRTool("dispatcher", ToolName(rest), ar)

ExtrasNext ==
  \/ HandleJSRToolWithExtras
  \/ ReadFileSettles
  \/ FetchSettles
  \/ Return

ExtrasSpec == Init /\ [][ExtrasNext]_vars

----------------------------------------------------------------------------
(* Vocabulary of the properties *)

\* sub occurs in msg as a run of consecutive parts.
Contains(msg, sub) ==
  \E i \in 0..(Len(msg) - Len(sub)) : \A j \in 1..Len(sub) : msg[i + j] = sub[j]

\* The invocation went through handleJSRTool's entry points.
ViaDispatcher == entry \in {"dispatcher", "calltool"}

\* handleJSRTool itself was called: directly, or by the CallTool handler
\* for a name with the jsr_ prefix.
InHandleJSRTool ==
  entry = "dispatcher" \/ (entry = "calltool" /\ StartsWithJsr(name))

OneTextPart(out) ==
  out.kind = "envelope" /\ Len(out.content) = 1 /\ out.content[1].type = "text"

IsFailureText(text) ==
  text.t = "string" /\ Len(text.parts) >= 1 /\ text.parts[1] = "Error: "

IsPayloadText(text) == text.t = "string" /\ text.parts = <<"json:">>

IsConfirmationText(text) ==
  /\ text.t = "string"
  /\ \E rest \in VoidTools : text.parts = <<Confirmation(rest)>>

\* Nothing left the process during the invocation.
NothingSent ==
  requests = <<>> /\ reads = 0 /\ call = NoCall /\ response = NoResponse

Rejected ==
  /\ pc = "done"
  /\ OneTextPart(outcome)
  /\ outcome.isError = "true"
  /\ IsFailureText(outcome.content[1].text)
  /\ NothingSent

\* The arguments reached a remote operation (or the tarball read before it).
Forwarded == pc \in {"reading", "fetching"} \/ requests # <<>> \/ reads > 0

----------------------------------------------------------------------------
(* C1 *)

\* C1: handleJSRTool never rejects.  Whatever the name, the raw arguments,
\* the outcome of validation, of the tarball read and of the HTTP round trip,
\* a finished call has resolved to exactly one result envelope with one text
\* part, and while it is in flight nothing has been thrown.
C1_NeverRejects ==
  InHandleJSRTool =>
    /\ pc = "done" => OneTextPart(outcome)
    /\ pc \in {"reading", "fetching"} => outcome = NoOutcome

\* A network failure during a direct call ended as an envelope.
C1_Witness ==
  /\ pc = "done"
  /\ entry = "dispatcher"
  /\ response.net
  /\ OneTextPart(outcome)

----------------------------------------------------------------------------
(* C2 *)

\* C2: in every envelope returned by handleJSRTool, isError is true exactly
\* when the single text part is a failure message, and absent exactly when
\* the text part is the serialized payload or a fixed confirmation string.
C2_FlagAgreesWithContent ==
  (InHandleJSRTool /\ pc = "done" /\ OneTextPart(outcome)) =>
    LET text == outcome.content[1].text
    IN /\ outcome.isError \in {"true", "absent"}
       /\ outcome.isError = "true" <=> IsFailureText(text)
       /\ outcome.isError = "absent" <=>
            (IsPayloadText(text) \/ IsConfirmationText(text))

\* A validation failure and its flagged envelope.
C2_Witness ==
  /\ pc = "done"
  /\ entry = "dispatcher"
  /\ IsKnown(name)
  /\ outcome = Envelope(ErrorText(ZodErrorMessage), "true")

----------------------------------------------------------------------------
(* C3 *)

\* The remote operation or the tarball read of the finished invocation
\* failed.
OperationFailed ==
  \/ reads > 0 /\ requests = <<>>
  \/ response # NoResponse /\ ~RemoteResult(Client(entry), call, response).ok

\* C3: for every tool registered by createServer, whenever the remote
\* operation or the tarball read fails, the handler returns an envelope with
\* isError = true whose single text part carries the failure message.
C3_McpFailureFlagged ==
  (entry = "mcp" /\ pc = "done" /\ OperationFailed) =>
    /\ OneTextPart(outcome)
    /\ outcome.isError = "true"
    /\ IsFailureText(outcome.content[1].text)

----------------------------------------------------------------------------
(* C4 *)

\* The tool of the invocation validates its arguments.
HasInputShape == IsKnown(name) /\ name.rest \notin NoArgTools

\* Violations spelled out on the raw arguments: a missing required scope, a
\* malformed scope, a numeric string for limit, limit = 101 against the
\* 1..100 bound, an argument value that is no object.
PlainViolation ==
  LET schema == ToolSchema(name.rest)
  IN \/ ~args.obj
     \/ "scope" \in Declared(schema) /\ args.f["scope"] = Undef
     \/ "scope" \in Declared(schema)
          /\ args.f["scope"] = Str(<<"S", "t", "d">>)
     \/ "limit" \in Declared(schema) /\ args.f["limit"].t = "string"
     \/ name.rest \in {"list_packages", "get_package_dependents"}
          /\ args.f["limit"] = Num(Q(101))

\* C4: for every tool and every argument object that violates the tool's
\* input shape, the call returns an envelope with isError = true and no
\* outbound HTTP request (and no tarball read) is made.
C4_InvalidArgsRejected ==
  (InHandleJSRTool /\ pc # "idle" /\ HasInputShape) =>
    /\ ~ParseOk(ToolSchema(name.rest), args) => Rejected
    /\ PlainViolation => Rejected

\* A numeric string for limit was rejected by jsr_list_packages.
C4_Witness ==
  /\ entry = "dispatcher"
  /\ name = ToolName("list_packages")
  /\ args.obj
  /\ args.f["limit"] = Str(<<"5">>)
  /\ Rejected

----------------------------------------------------------------------------
(* C5 *)

\* Lowercase alphanumeric segments joined by single hyphens, the first
\* character alphabetic.
WellFormedName(cs) ==
  /\ Len(cs) >= 1
  /\ \A i \in 1..Len(cs) : cs[i] \in LowerChars \cup DigitChars \cup {"-"}
  /\ cs[1] \in LowerChars
  /\ cs[Len(cs)] # "-"
  /\ \A i \in 1..(Len(cs) - 1) : ~(cs[i] = "-" /\ cs[i + 1] = "-")

\* The scope and package name arguments of a tool.
NameKeys(rest) == {"scope", "name", "package"} \cap Declared(ToolSchema(rest))

\* C5: for every tool of handleJSRTool that takes a scope or package name,
\* the value reaches a remote operation only if it is made of lowercase
\* alphanumeric segments joined by single hyphens with an alphabetic first
\* character; every other string is rejected before any request.
C5_OnlyWellFormedNamesForwarded ==
  (InHandleJSRTool /\ pc # "idle" /\ IsKnown(name)) =>
    \A k \in NameKeys(name.rest) :
      /\ Forwarded =>
           args.f[k].t = "string" /\ WellFormedName(args.f[k].s)
      /\ (args.obj /\ args.f[k].t = "string" /\ ~WellFormedName(args.f[k].s))
           => Rejected

\* A hyphenated scope went out with the request of jsr_get_package.
C5_Witness ==
  /\ entry = "dispatcher"
  /\ name = ToolName("get_package")
  /\ args.f["scope"] = Str(<<"a", "1", "-", "1", "b">>)
  /\ args.f["name"] = Str(<<"s", "t", "d">>)
  /\ pc = "fetching"
  /\ Len(requests) = 1

----------------------------------------------------------------------------
(* C6 *)

BoundedTools == {"list_packages", "get_package_dependents"}

\* v is absent or a number within lo..hi (hi < 0: no upper bound).
WithinBounds(v, lo, hi) ==
  \/ v = Undef
  \/ v.t = "number" /\ v.n >= Q(lo) /\ (hi < 0 \/ v.n <= Q(hi))

NumbersWithinBounds ==
  /\ WithinBounds(args.f["limit"], 1, 100)
  /\ WithinBounds(args.f["page"], 1, 0 - 1)
  /\ \/ name.rest = "list_packages"
     \/ WithinBounds(args.f["versionsPerPackageLimit"], 1, 10)

\* The arguments other than the bounded numbers are acceptable.
OtherFieldsOk ==
  /\ args.obj
  /\ \A k \in Declared(ToolSchema(name.rest))
            \ {"limit", "page", "versionsPerPackageLimit"} :
       FieldOk(ToolSchema(name.rest)[k], args.f[k])

\* C6: for jsr_list_packages and jsr_get_package_dependents, limit is
\* accepted exactly for 1 <= limit <= 100, page exactly for page >= 1 and
\* versionsPerPackageLimit exactly for 1 <= v <= 10; a value outside these
\* ranges yields an error envelope and no HTTP call.
C6_NumericBoundsInclusive ==
  (InHandleJSRTool /\ pc # "idle" /\ StartsWithJsr(name)
     /\ name.rest \in BoundedTools /\ OtherFieldsOk) =>
    /\ NumbersWithinBounds => Forwarded /\ Len(requests) = 1
    /\ ~NumbersWithinBounds => Rejected

\* The upper end of the limit range was accepted.
C6_Witness ==
  /\ entry = "dispatcher"
  /\ name = ToolName("list_packages")
  /\ args.obj
  /\ args.f["limit"] = Num(Q(100))
  /\ args.f["page"] = Num(Q(1))
  /\ pc = "fetching"
  /\ Len(requests) = 1

----------------------------------------------------------------------------
(* C7 *)

\* C7: for every operation name that is not in the registry, the call ends
\* with an envelope with isError = true whose message identifies the unknown
\* name, or with a protocol-level fault naming it, and no remote operation
\* is invoked and no HTTP request is issued.
C7_UnknownNameRejected ==
  (ViaDispatcher /\ pc # "idle"
     /\ (name.pre # "jsr_" \/ name.rest \notin KnownTools)) =>
    /\ pc = "done"
    /\ NothingSent
    /\ \/ /\ Rejected
          /\ Contains(outcome.content[1].text.parts, NameText(name))
       \/ /\ outcome.kind = "fault"
          /\ outcome.code = "MethodNotFound"
          /\ Contains(outcome.msg, NameText(name))

\* An unregistered name with the jsr_ prefix got the error envelope.
C7_Witness ==
  /\ pc = "done"
  /\ entry = "calltool"
  /\ name = [pre |-> "jsr_", rest |-> "unknown_tool"]
  /\ outcome =
       Envelope(ErrorText(<<"Unknown JSR tool: ", "jsr_", "unknown_tool">>),
                "true")

----------------------------------------------------------------------------
(* C8 *)

\* The remote answered with success in a form a void operation expects: 204
\* with an empty body, or another 2xx status with a JSON body.
AnsweredSuccess ==
  /\ ~response.net
  /\ ResponseOk(response)
  /\ \/ response.status = 204 /\ response.body = "empty"
     \/ response.status # 204 /\ response.body = "json"

\* C8: for every void tool of handleJSRTool, when the remote answers with a
\* 2xx status, including 204 with an empty body, the envelope contains
\* exactly one text part equal to the tool's fixed confirmation string and
\* isError is absent.
C8_VoidToolConfirms ==
  (InHandleJSRTool /\ pc = "done" /\ IsKnown(name)
     /\ name.rest \in VoidTools /\ AnsweredSuccess) =>
    /\ OneTextPart(outcome)
    /\ outcome.content[1].text = FixedText(Confirmation(name.rest))
    /\ outcome.isError = "absent"

----------------------------------------------------------------------------
(* C9 *)

\* What the request builder of the finished invocation yielded.
BuilderResult ==
  IF call.builder = "api" THEN makeApiRequest(Client(entry), response)
  ELSE makeRegistryRequest(Client(entry), response)

\* C9: a management request or registry request that receives HTTP 204
\* yields undefined without decoding the body as JSON, and does not fail --
\* in the client of the server entry point as in the library client.
C9_NoContentYieldsUndefined ==
  (pc = "done" /\ response # NoResponse /\ ~response.net
     /\ response.status = 204) =>
    BuilderResult = Returned(JUndefined)

----------------------------------------------------------------------------
(* C10 *)

\* The failure message the caller of the finished invocation was given.
FailureMessage == outcome.content[1].text.parts

ManagementMessageComplete ==
  /\ Contains(FailureMessage, <<"JSR API request failed: ">>)
  /\ Contains(FailureMessage, StatusChars(response.status))
  /\ Contains(FailureMessage, <<response.statusText>>)
  /\ Contains(FailureMessage, response.text)

RegistryMessageWithoutBody ==
  /\ Contains(FailureMessage, StatusChars(response.status))
  /\ Contains(FailureMessage, <<response.statusText>>)
  /\ response.text # <<>> => ~Contains(FailureMessage, response.text)

RefusedResponse ==
  pc = "done" /\ response # NoResponse /\ ~response.net
    /\ ~ResponseOk(response)

----------------------------------------------------------------------------
(* C11 *)

\* A token is configured: a string that is not empty.
HasToken(cfg) == cfg.apiToken.t = "string" /\ cfg.apiToken.s # <<>>

BearerOf(cfg) == Str(<<"Bearer ">> \o cfg.apiToken.s)

TokenSamples == {Undef, Str(<<>>), Str(<<"tok">>), Str(<<"other">>)}

\* Header maps a caller of the request builder may pass in its options.
CallerHeaderMaps ==
  {[NoHeaders EXCEPT !["Authorization"] = a, !["Content-Type"] = c]
     : a \in {Undef, Str(<<>>), Str(<<"Basic ", "x">>)},
       c \in {Undef, Str(<<"application/octet-stream">>)}}

\* C11: every management request carries 'Authorization: Bearer <token>' if
\* and only if the configuration has a token, no registry request carries
\* an Authorization header whatever the token, and a header map supplied by
\* the caller cannot override or remove the Authorization header of a
\* management request.
C11_AuthorizationHeader ==
  requests # <<>> =>
    LET req == requests[1]
        auth == req.headers["Authorization"]
    IN /\ call.builder = "api" =>
            /\ HasToken(config) <=> auth # Undef
            /\ HasToken(config) => auth = BearerOf(config)
       /\ call.builder = "registry" => auth = Undef
       /\ pc = "fetching" => \A tok \in TokenSamples :
            LET cfg == [config EXCEPT !.apiToken = tok]
            IN /\ call.builder = "registry" =>
                    RegistryRequest(Client(entry), cfg, call)
                      .headers["Authorization"] = Undef
               /\ call.builder = "api" =>
                    /\ ~HasToken(cfg) =>
                         ApiRequest(Client(entry), cfg, call)
                           .headers["Authorization"] = Undef
                    /\ \A over \in CallerHeaderMaps :
                         HasToken(cfg) =>
                           ApiRequest(Client(entry), cfg,
                                      [call EXCEPT !.headers = over])
                             .headers["Authorization"] = BearerOf(cfg)

\* A management request went out under a configured token.
C11_Witness ==
  /\ pc = "fetching"
  /\ call.builder = "api"
  /\ config.apiToken = Str(<<"tok">>)
  /\ Len(requests) = 1
  /\ requests[1].headers["Authorization"] = Str(<<"Bearer ", "tok">>)

----------------------------------------------------------------------------
(* C12 *)

NoTrailingSlash(url) == url # <<>> /\ url[Len(url)] # "/"

\* C12: for every pair of input URL strings, the configuration returned by
\* createJSRConfig stores an apiUrl and a registryUrl that are non-empty and
\* do not end with '/', and stores the token unchanged.
C12_ConfigNormalized ==
  boot.phase \in {"probing", "connecting", "creating", "running"} =>
    /\ NoTrailingSlash(config.apiUrl)
    /\ NoTrailingSlash(config.registryUrl)
    /\ config.apiToken = boot.env.JSR_API_TOKEN

----------------------------------------------------------------------------
(* C13 *)

\* C13: testConnection never throws or rejects: for every outcome of its
\* single search request it resolves to {success: true} with error undefined
\* when the request succeeded, and to {success: false, error: <non-empty
\* message>} when it failed.
C13_TestConnectionResolves ==
  boot.probe.kind # "none" =>
    LET ok == RemoteResult(ProgramClient(boot.program), call, response).ok
    IN /\ boot.probe.kind = "resolved"
       /\ Len(requests) = 1
       /\ call = ProbeCall
       /\ (response.net \/ ~ResponseOk(response)) => ~ok
       /\ (ResponseOk(response) /\ response.body = "json") => ok
       /\ ok => boot.probe.success /\ boot.probe.error = Undef
       /\ ~ok =>
            /\ ~boot.probe.success
            /\ boot.probe.error.t = "string"
            /\ boot.probe.error.s # <<>>

\* The probe's request was refused with 404 and the probe resolved to a
\* failure result.
C13_Witness ==
  /\ boot.probe.kind = "resolved"
  /\ response.status = 404
  /\ ~boot.probe.success
  /\ Contains(boot.probe.error.s, <<"4", "0", "4">>)

----------------------------------------------------------------------------
(* C14 *)

ProbeOutcomes ==
  {[kind |-> "resolved", success |-> TRUE, error |-> Undef],
   [kind |-> "resolved", success |-> FALSE, error |-> Str(<<"failed">>)],
   [kind |-> "thrown", success |-> FALSE, error |-> Str(<<"thrown">>)]}

\* C14: at startup, for every outcome of the connectivity probe (success
\* result, failure result, thrown exception) the server goes on to connect
\* the transport and reach the running state; a probe failure never ends
\* the process, which exits with non-zero status only on a fault thrown by
\* the creation of the server or the connection of the transport.
C14_ProbeNeverStopsStartup ==
  /\ \A probe \in ProbeOutcomes :
       /\ AfterProbe("main", probe) = "connecting"
       /\ AfterProbe("startLocalServer", probe) = "creating"
  /\ boot.probe.kind # "none" =>
       boot.phase \in {"connecting", "creating", "running", "exited",
                       "rejected"}
  /\ boot.phase = "running" => boot.fault = "none" /\ boot.exitCode = 0 - 1
  /\ boot.phase = "exited" <=> boot.exitCode = 1
  /\ boot.exitCode = 1 =>
       boot.program = "main" /\ boot.fault \in {"createServer", "connect"}
  /\ boot.phase = "rejected" =>
       /\ boot.program = "startLocalServer"
       /\ boot.fault \in {"load", "createServer", "connect"}
  /\ (boot.fault = "none" /\ boot.probe.kind # "none") =>
       boot.phase \in {"connecting", "creating", "running"}

\* The probe failed and the server is running all the same.
C14_Witness ==
  /\ boot.phase = "running"
  /\ boot.program = "main"
  /\ boot.probe.kind = "resolved"
  /\ ~boot.probe.success
  /\ response.net

----------------------------------------------------------------------------
(* C15 *)

PaginatedTools ==
  {"search_packages", "list_packages", "list_package_versions",
   "list_scope_packages", "get_package_dependents"}

\* The finished invocation of a paginated list tool returned a payload.
PaginatedPayload ==
  /\ pc = "done"
  /\ IsKnown(name)
  /\ name.rest \in PaginatedTools
  /\ OneTextPart(outcome)
  /\ IsPayloadText(outcome.content[1].text)

\* The value the remote operation returned, as serialized into the text.
PayloadValue == outcome.content[1].text.value

\* C15: for any paginated list operation and any server response, the
\* returned result carries a 'returned' count equal to the actual length of
\* its data array.
C15_ReturnedIsDataLength ==
  PaginatedPayload =>
    /\ PayloadValue.pag
    /\ PayloadValue.data.t = "array"
    /\ PayloadValue.returned = Num(Q(PayloadValue.data.len))

----------------------------------------------------------------------------
(* C16 *)

\* C16: for any paginated list operation invoked through the dispatcher
\* with arguments that pass validation, the 'skip' value of the returned
\* result is non-negative, and 0 when neither skip nor page was supplied.
\* (Stated for the operations whose result carries a skip value.)
C16_SkipNonNegative ==
  (InHandleJSRTool /\ PaginatedPayload /\ PayloadValue.pag) =>
    /\ PayloadValue.skip.t = "number"
    /\ PayloadValue.skip.n >= 0
    /\ (args.f["skip"] = Undef /\ args.f["page"] = Undef) =>
         PayloadValue.skip = Num(0)

----------------------------------------------------------------------------
(* C17 *)

\* The value of a query parameter of a request, undefined when not set.
QueryParam(req, key) ==
  IF \E i \in 1..Len(req.query) : req.query[i].k = key
  THEN req.query[CHOOSE i \in 1..Len(req.query) : req.query[i].k = key].v
  ELSE Undef

\* The page the remote serves: the page parameter, the first page without.
RequestedPage(req) ==
  IF QueryParam(req, "page") = Undef THEN Num(Q(1))
  ELSE QueryParam(req, "page")

\* page = floor(skip / limit) + 1, on numbers in quarters: page is whole
\* and (page - 1) * limit <= skip < page * limit.
IsPageOfSkip(page, skip, limit) ==
  /\ page.t = "number"
  /\ page.s = <<>>
  /\ page.n % 4 = 0
  /\ (page.n - 4) * limit.n <= 4 * skip.n
  /\ 4 * skip.n < page.n * limit.n

\* C17: when a caller supplies a skip count to jsr_search_packages or
\* jsr_list_scope_packages, the page requested from the remote is
\* floor(skip / limit) + 1, where limit is the supplied limit, or 20 when
\* none is supplied.  (Stated for skip >= 0 and a positive limit.)
C17_PageFromSkip ==
  (IsKnown(name) /\ name.rest \in {"search_packages", "list_scope_packages"}
     /\ requests # <<>> /\ args.f["skip"].t = "number"
     /\ args.f["skip"].n >= 0
     /\ (args.f["limit"] = Undef \/ args.f["limit"].n > 0)) =>
    IsPageOfSkip(RequestedPage(requests[1]), args.f["skip"],
                 IF args.f["limit"] = Undef THEN Num(Q(20))
                 ELSE args.f["limit"])

----------------------------------------------------------------------------
(* C18 *)

\* The schema the entry point of the invocation validates against.
EntrySchema ==
  IF entry = "mcp" THEN McpToolSchema(name.rest) ELSE ToolSchema(name.rest)

\* C18: for jsr_create_package_version with validated arguments whose
\* tarballPath cannot be read, the envelope has isError = true with a message
\* reflecting the read failure and no HTTP request is issued; the file is
\* read only after validation succeeded and strictly before the request is
\* built.
C18_TarballReadFailure ==
  (pc # "idle" /\ name = ToolName("create_package_version")) =>
    /\ reads > 0 => ParseOk(EntrySchema, args)
    /\ pc = "reading" => reads = 1 /\ requests = <<>>
    /\ requests # <<>> => reads = 1 /\ Len(requests) = 1
    /\ (pc = "done" /\ reads = 1 /\ requests = <<>>) =>
         /\ OneTextPart(outcome)
         /\ outcome.isError = "true"
         /\ Contains(outcome.content[1].text.parts, ReadFileErrorMessage)
         /\ response = NoResponse

----------------------------------------------------------------------------
(* C19 *)

WriteTools ==
  {"create_scope", "update_scope", "update_package", "create_authorization"}

\* The arguments of a write tool that belong in the body; the others go
\* into the path.
BodyKeys(rest) ==
  CASE rest = "create_scope" -> {"scope", "description"}
    [] rest = "update_scope" ->
         {"ghActionsVerifyActor", "requirePublishingFromCI"}
    [] rest = "update_package" ->
         {"description", "githubRepository", "runtimeCompat", "isArchived"}
    [] rest = "create_authorization" -> {"challenge", "permissions"}
    [] OTHER -> {}

WriteToolRequest ==
  /\ IsKnown(name)
  /\ name.rest \in WriteTools
  /\ requests # <<>>

----------------------------------------------------------------------------
(* C20 *)

\* What the invocation in fl was called with, run on its own up to its
\* first await or return.
OwnEntry(fl) == Entered(fl.entry, fl.name, fl.args, config, fl.overlap)

\* The same once its request is with fetch.
OwnFetch(fl) ==
  IF OwnEntry(fl).pc = "reading" THEN Fetching(OwnEntry(fl)) ELSE OwnEntry(fl)

\* The envelope of fl as its own name, arguments and response determine it.
OwnOutcome(fl, i) ==
  IF OwnEntry(fl).pc = "done" THEN OwnEntry(fl).outcome
  ELSE IF fl.response = NoResponse
  THEN Catch(fl.entry, ReadFileErrorMessage)
  ELSE Resumed(OwnFetch(fl), fl.response, i).outcome

\* Whatever the other slots are doing, slot i can take its next step.
CanProceed(i) ==
  CASE flights[i].pc = "idle" -> ENABLED InvokeIn(i)
    [] flights[i].pc = "reading" -> ENABLED ReadFileSettlesIn(i)
    [] flights[i].pc = "fetching" -> ENABLED FetchSettlesIn(i)
    [] OTHER -> ENABLED ReturnIn(i)

\* C20: in every interleaving of invocations in flight side by side, each
\* invocation holds the call and the request made from its own name and
\* arguments, the response it resumes with is the one answering its own
\* request, its envelope is the one its own name, arguments and response
\* determine, its next step never depends on another invocation having
\* completed, and the configuration it was passed is still the
\* configuration of the server.
C20_InvocationsIsolated ==
  \A i \in DOMAIN flights :
    LET fl == flights[i]
    IN /\ CanProceed(i)
       /\ fl.pc # "idle" =>
            /\ fl.cfg = config
            /\ fl.pc \in {"reading", "fetching"} => fl.call = OwnEntry(fl).call
            /\ fl.requests \in {<<>>, OwnFetch(fl).requests}
            /\ fl.pc = "fetching" => fl.requests = OwnFetch(fl).requests
            /\ fl.response # NoResponse => fl.served = i
            /\ fl.pc = "done" => fl.outcome = OwnOutcome(fl, i)

\* Slot 1 started alone and still awaits its fetch; slot 2 started after
\* it, for another tool, and has already returned with the answer to its own
\* request.
C20_Witness ==
  /\ DOMAIN flights = Slots
  /\ flights[1].pc = "fetching"
  /\ ~flights[1].overlap
  /\ flights[1].name = ToolName("search_packages")
  /\ flights[2].pc = "done"
  /\ flights[2].overlap
  /\ flights[2].name = ToolName("get_stats")
  /\ flights[2].served = 2
  /\ flights[2].response.status = 200
  /\ flights[2].outcome.kind = "envelope"

----------------------------------------------------------------------------
(* C21 *)

\* The invocation in fl is of an authorization tool with arguments its
\* schema accepts.
ValidAuthorizationCall(fl) ==
  /\ fl.name.rest \in AuthorizationTools
  /\ ParseOk(ToolSchema(fl.name.rest), fl.args)

\* C21: whatever authorization tools handleJSRTool served before, in
\* whatever order and however often, an invocation of an authorization tool
\* with valid arguments issues its one request, the request its own
\* arguments determine, and two invocations with the same name, arguments
\* and response end with the same envelope wherever in the sequence they
\* stand.
C21_AuthorizationStepsIndependent ==
  \A i \in DOMAIN flights :
    LET fl == flights[i]
    IN /\ ValidAuthorizationCall(fl) =>
            /\ fl.pc \in {"fetching", "done"}
            /\ fl.requests =
                 <<BuildRequest("server", config,
                                RemoteCall(fl.name.rest,
                                           Parsed(ToolSchema(fl.name.rest),
                                                  fl.args),
                                           Undef))>>
            /\ fl.pc = "done" => fl.response # NoResponse
       /\ \A j \in DOMAIN flights :
            /\ flights[j].name = fl.name
            /\ flights[j].args = fl.args
            /\ flights[j].response = fl.response
            /\ flights[j].pc = fl.pc
            => /\ flights[j].outcome = fl.outcome
               /\ flights[j].requests = fl.requests

\* The exchange was served first, before any authorization was created, and
\* the approval was then served twice.
C21_Witness ==
  /\ Len(flights) = 3
  /\ \A i \in 1..3 : ValidAuthorizationCall(flights[i])
  /\ flights[1].name.rest = "exchange_authorization"
  /\ flights[1].outcome.isError # "true"
  /\ flights[2].name.rest = "approve_authorization"
  /\ flights[3].name.rest = "approve_authorization"
  /\ flights[3].pc = "done"
  /\ flights[3].response.status = 200

----------------------------------------------------------------------------
(* C22 *)

\* handleJSRTool found a case for the name and the case's parse succeeded.
Accepted ==
  /\ IsKnown(name)
  /\ name.rest \in NoArgTools \/ ParseOk(ToolSchema(name.rest), args)

----------------------------------------------------------------------------
(* C23 *)

PathDelimiters == {"/", "?", "#"}

\* The text is one path segment: not empty and free of delimiters.
SingleSegment(text) ==
  text # <<>> /\ \A i \in DOMAIN text : text[i] \notin PathDelimiters

\* The pieces of an endpoint alternate between the literal parts of the
\* template and the interpolated arguments.
Interpolated(path) == {i \in DOMAIN path : i % 2 = 0}

\* C23: in every request issued for arguments that passed validation, each
\* argument interpolated into the path ({scope}, {name}, {version}, {id},
\* {userId}, {code}) is a single path segment, so the path has the segment
\* structure of the endpoint template.
C23_PathArgumentsAreSegments ==
  (requests # <<>> /\ boot = Serving /\ flights = <<>>) =>
    \A i \in Interpolated(call.path) : SingleSegment(call.path[i])

----------------------------------------------------------------------------
(* C24 *)

\* The remote operation of the finished invocation returned a value.
OperationReturned ==
  /\ pc = "done"
  /\ IsKnown(name)
  /\ response # NoResponse
  /\ ~response.net
  /\ ResponseOk(response)
  /\ RemoteResult(Client(entry), call, response).ok

\* C24: at every entry point, when the remote operation of a non-void tool
\* returned on a 2xx response (204 included), the envelope has exactly one
\* text part, its text is a string, namely the formatted JSON serialization
\* of the value the operation returned, and isError is not true.
C24_SuccessTextIsJson ==
  (OperationReturned /\ name.rest \notin VoidTools) =>
    /\ OneTextPart(outcome)
    /\ outcome.content[1].text.t = "string"
    /\ outcome.content[1].text.parts = <<"json:">>
    /\ outcome.content[1].text.value
         = RemoteResult(Client(entry), call, response).value
    /\ outcome.isError # "true"

----------------------------------------------------------------------------
(* C25 *)

\* C25: for every tool that has an input schema, the inline schema
\* registered by createServer accepts an argument object exactly when the
\* tool input schema of the client types accepts it.
C25_SchemasAccept ==
  (pc # "idle" /\ IsKnown(name) /\ name.rest \notin NoArgTools) =>
    (ParseOk(McpToolSchema(name.rest), args)
       <=> ParseOk(ToolSchema(name.rest), args))

----------------------------------------------------------------------------
(* C26 *)

Advertised == {ToolName(createJSRTools[i]) : i \in DOMAIN createJSRTools}

Dispatched == {ToolName(rest) : rest \in KnownTools}

CatalogDistinct ==
  \A i, j \in DOMAIN createJSRTools :
    createJSRTools[i] = createJSRTools[j] => i = j

\* C26: createJSRTools returns one fixed array literal; its names are
\* pairwise distinct and are exactly the names handleJSRTool has a case
\* for.  An advertised name is never answered with 'Unknown JSR tool' and
\* reaches its remote operation when the arguments are valid; a name that
\* is not advertised is answered with 'Unknown JSR tool'.
C26_CatalogMatchesDispatcher ==
  /\ CatalogDistinct
  /\ Advertised = Dispatched
  /\ (InHandleJSRTool /\ pc # "idle") =>
       IF name \in Advertised
       THEN /\ Forwarded <=> Accepted
            /\ pc = "done" =>
                 ~(/\ OneTextPart(outcome)
                   /\ Contains(outcome.content[1].text.parts,
                               <<"Unknown JSR tool: ">>))
       ELSE /\ pc = "done"
            /\ NothingSent
            /\ outcome
                 = DispatcherCatch(<<"Unknown JSR tool: ">> \o NameText(name))

\* The last name of the catalog was called with valid arguments and
\* reached its remote operation.
C26_Witness ==
  /\ InHandleJSRTool
  /\ name = ToolName(createJSRTools[Len(createJSRTools)])
  /\ Len(createJSRTools) = 40
  /\ Accepted
  /\ pc = "fetching"
  /\ Len(requests) = 1

----------------------------------------------------------------------------
(* C27 *)

\* C27: in the CallTool handler, a name without the jsr_ prefix ends in the
\* MethodNotFound fault 'Unknown tool: <name>' without handleJSRTool being
\* called (nothing is validated, read or sent); a name with the prefix,
\* known or not, ends in a result envelope and never in a fault, so the
\* handler's InternalError wrapping is never the outcome.
C27_CallToolFaultsOnlyOnPrefix ==
  (entry = "calltool" /\ pc # "idle") =>
    /\ outcome.code # "InternalError"
    /\ ~StartsWithJsr(name) =>
         /\ pc = "done"
         /\ outcome
              = Fault("MethodNotFound", <<"Unknown tool: ">> \o NameText(name))
         /\ NothingSent
    /\ StartsWithJsr(name) =>
         /\ outcome.kind # "fault"
         /\ pc = "done" => OneTextPart(outcome)

\* A name with the prefix that no case handles came back as an error
\* envelope, not as a fault.
C27_Witness ==
  /\ entry = "calltool"
  /\ pc = "done"
  /\ StartsWithJsr(name)
  /\ ~IsKnown(name)
  /\ outcome.kind = "envelope"
  /\ outcome.isError = "true"

----------------------------------------------------------------------------
(* C28 *)

\* A whole number, at least 1.
IsPageNumber(v) == IsFinite(v) /\ v.n % Q(1) = 0 /\ v.n >= Q(1)

\* C28: in every request issued by jsr_search_packages, jsr_list_packages,
\* jsr_list_package_versions, jsr_list_scope_packages or
\* jsr_get_package_dependents for arguments that passed validation, a page
\* query parameter, when present, is an integer greater than or equal to 1.
C28_PageParameterIsPageNumber ==
  (IsKnown(name) /\ name.rest \in PaginatedTools /\ requests # <<>>) =>
    (QueryParam(requests[1], "page") # Undef
       => IsPageNumber(QueryParam(requests[1], "page")))

----------------------------------------------------------------------------
(* C29 *)

MaxSkip == 12

MaxLimit == 5

\* page is the page of size limit that holds offset skip.
HoldsOffset(page, skip, limit) ==
  /\ IsPageNumber(page)
  /\ (page.n - Q(1)) * limit.n <= Q(1) * skip.n
  /\ Q(1) * skip.n < page.n * limit.n

\* The conversion on a grid of whole skips and limits.
PageOfHoldsOffset ==
  \A s \in 0..MaxSkip : \A l \in 1..MaxLimit :
    LET page == PageOf(Num(Q(s)), Num(Q(l)))
    IN /\ HoldsOffset(page, Num(Q(s)), Num(Q(l)))
       /\ page = Num(Q(1)) <=> s < l

IsWhole(v, lo) == IsFinite(v) /\ v.n % Q(1) = 0 /\ v.n >= Q(lo)

\* C29: for whole numbers skip >= 0 and limit >= 1 the conversion
\* floor(skip / limit) + 1 gives the page that holds offset skip,
\* (page - 1) * limit <= skip < page * limit, and gives 1 exactly when
\* skip < limit.  listScopePackages, called with such a skip and limit,
\* leaves the page parameter out exactly when skip < limit, sends the
\* converted page otherwise, and echoes the caller's skip in its result.
C29_PageHoldsOffset ==
  /\ PageOfHoldsOffset
  /\ (IsKnown(name) /\ name.rest = "list_scope_packages" /\ requests # <<>>
      /\ IsWhole(args.f["skip"], 0) /\ IsWhole(args.f["limit"], 1)) =>
       LET skip == args.f["skip"]
           limit == args.f["limit"]
           sent == QueryParam(requests[1], "page")
       IN /\ sent = Undef <=> skip.n < limit.n
          /\ sent # Undef => HoldsOffset(sent, skip, limit)
          /\ (PaginatedPayload /\ PayloadValue.pag) => PayloadValue.skip = skip

\* listScopePackages was called with skip 11 and limit 10, asked for page 2
\* and returned a result that echoes skip 11.
C29_Witness ==
  /\ name = ToolName("list_scope_packages")
  /\ args.f["skip"] = Num(Q(11))
  /\ args.f["limit"] = Num(Q(10))
  /\ Len(requests) = 1
  /\ QueryParam(requests[1], "page") = Num(Q(2))
  /\ PaginatedPayload
  /\ PayloadValue.skip = Num(Q(11))

----------------------------------------------------------------------------
(* C30 *)

\* A nested value without the keys its schema does not declare.
Bare(v) ==
  IF v.t = "object"
  THEN LET Declares(key) == key # "extra" IN Obj(SelectSeq(v.s, Declares))
  ELSE IF v.t = "array"
  THEN Arr([i \in DOMAIN v.s |->
              IF v.s[i] = "scope+extra" THEN "scope" ELSE v.s[i]])
  ELSE v

\* The arguments that differ from ar only in lacking every undeclared key.
Twin(schema, ar) ==
  [obj |-> ar.obj,
   f |-> [k \in Keys |->
            IF k \in Declared(schema) THEN Bare(ar.f[k]) ELSE Undef]]

\* The request handleJSRTool issues for tool rest on arguments ar.
RequestOf(rest, ar) ==
  LET a == Parsed(ToolSchema(rest), ar)
  IN BuildRequest("server", config,
                  RemoteCall(rest, a,
                             DispatcherSearchPage(a["skip"], a["limit"])))

\* C30: the request handleJSRTool issues does not depend on argument keys
\* the schema of the tool does not declare, at the top level or inside
\* githubRepository, runtimeCompat and the permission entries: the call and
\* its twin without those keys are accepted alike and issue the same
\* request (method, path, query, headers and body).
C30_UndeclaredKeysIgnored ==
  (InHandleJSRTool /\ IsKnown(name) /\ pc # "idle") =>
    LET twin == Twin(ToolSchema(name.rest), args)
    IN /\ ParseOk(ToolSchema(name.rest), args)
            <=> ParseOk(ToolSchema(name.rest), twin)
       /\ requests # <<>> =>
            /\ requests = <<RequestOf(name.rest, args)>>
            /\ RequestOf(name.rest, args) = RequestOf(name.rest, twin)

\* jsr_update_package was sent for arguments with an undeclared top-level
\* key and an undeclared key inside githubRepository.
C30_Witness ==
  /\ entry = "dispatcher"
  /\ name = ToolName("update_package")
  /\ args.f["limit"] = Num(Q(5))
  /\ args.f["githubRepository"] = Obj(<<"owner", "repo", "extra">>)
  /\ Len(requests) = 1
  /\ requests[1].body.f["githubRepository"] = Obj(<<"owner", "repo">>)
  /\ requests[1].body.f["limit"] = Undef
  /\ requests[1].query = <<>>

====
